---- MODULE Spec2Model ----
(***************************************************************************)
(* State-machine model of the knowledgebase scripts:                       *)
(*   scripts/validate.py         the validator run (main, ResourceValidator)*)
(*   scripts/analyze_changes.py  the change-set differencer                 *)
(*                                                                         *)
(* Python values are tagged records [t |-> type, v |-> payload]:           *)
(*   "str"  a string; ids and enumeration values carry a TLA+ string,      *)
(*          urls and dates carry the sequence of their characters, free    *)
(*          text carries [len, has]: its length and the generic phrases it *)
(*          contains (all the code reads of it);                           *)
(*   "list" a list, "int" an integer, "date" a datetime.date object (what  *)
(*          YAML makes of an unquoted 2024-01-15), "none" None.            *)
(* A resource is a function from the field names it has to such values.    *)
(***************************************************************************)
EXTENDS Integers, Sequences, FiniteSets, TLC

VARIABLES
    doc,        \* data/resources.yaml on disk: [shape, resources]
    pc,         \* position of validate.py main(): "load", "validate", "xref", "report", "done"
    idx,        \* number of records handed to validate_resource so far (the loop's i)
    errors,     \* validator.errors
    warnings,   \* validator.warnings
    seen_ids,   \* validator.seen_ids
    seen_urls,  \* validator.seen_urls
    raised,     \* the exception caught by main's `except Exception`, "none" if none
    reported,   \* TRUE once the itemized report (lines 388-403) was printed
    rc,         \* main()'s return value, -1 while running
    current_resources,   \* differencer: the current snapshot
    previous_resources,  \* differencer: the previous snapshot
    dpc,                 \* differencer position: "start", "modified", "done"
    todo_ids,            \* potentially_modified_ids not yet visited by the loop at line 113
    new_resources,
    removed_resources,
    modified_resources,
    gen_resources,  \* generator: data["resources"] as generate.py main() loaded it
    gpc,            \* generator position: "group", "sections", "done", "crashed"
    grouped,        \* group_resources_by_domain's dict, keys in insertion order
    sections,       \* per domain of grouped, in order: group_by_subcategory's dict
    runs,           \* what the earlier runs of validate.py on this store ended with
    star_store,     \* update_stars.py: the resources of data/resources.yaml on disk
    star_data,      \* data['resources'] in memory, updated in place
    spc,            \* position of update_github_stars: "loop", "saved", "unchanged"
    responses,      \* what the iterations so far got from the GitHub API, one each
    updated_count,
    total_repos,
    link_doc,          \* check_links.py: data/resources.yaml, [shape, resources]
    lpc,               \* position of check_links.py main(): "load", "loop", "checking", "done"
    link_log,          \* per record gone through: the outcomes of its attempts
    attempts,          \* check_url under way: the outcomes of its attempts so far
    result,            \* check_url's result dict
    broken_links,
    accessible_count,
    total_checked,
    link_rc            \* main()'s return value, -1 while running

vvars == <<doc, pc, idx, errors, warnings, seen_ids, seen_urls, raised, reported, rc>>
dvars == <<current_resources, previous_resources, dpc, todo_ids,
           new_resources, removed_resources, modified_resources>>
gvars == <<gen_resources, gpc, grouped, sections>>
svars == <<star_store, star_data, spc, responses, updated_count, total_repos>>
lvars == <<link_doc, lpc, link_log, attempts, result, broken_links,
           accessible_count, total_checked, link_rc>>
vars == <<vvars, dvars, gvars, runs, svars, lvars>>

\* what the steps of one script leave alone: the state of the other scripts
notvalidator == <<dvars, gvars, svars, lvars>>
notdifferencer == <<vvars, gvars, runs, svars, lvars>>
notgenerator == <<vvars, dvars, runs, svars, lvars>>
notstars == <<vvars, dvars, gvars, runs, lvars>>
notlinks == <<vvars, dvars, gvars, runs, svars>>

\* generate.py is not running
GeneratorOff ==
    /\ gen_resources = <<>>
    /\ gpc = "off"
    /\ grouped = <<>>
    /\ sections = <<>>

\* update_stars.py is not running
StarsOff ==
    /\ star_store = <<>>
    /\ star_data = <<>>
    /\ spc = "off"
    /\ responses = <<>>
    /\ updated_count = 0
    /\ total_repos = 0

\* check_links.py is not running
LinksOff ==
    /\ link_doc = [shape |-> "ok", resources |-> <<>>]
    /\ lpc = "off"
    /\ link_log = <<>>
    /\ attempts = <<>>
    /\ result = [accessible |-> FALSE, status_code |-> 0, error |-> "None"]
    /\ broken_links = <<>>
    /\ accessible_count = 0
    /\ total_checked = 0
    /\ link_rc = -1

----------------------------------------------------------------------------
(* Bounds of the model *)

\* longest collection the validator run is given
MaxRecords == 2
\* most records in the two snapshots of a differencer run, taken together
MaxSnapshotRecords == 4

----------------------------------------------------------------------------
(* Python values *)

\* a string of one of three encodings (k): "atom" a TLA+ string, "chars" the
\* sequence of its characters, "text" [len, has]. A field keeps one encoding in
\* every record, so == never meets two encodings of one string.
S(x) == [t |-> "str", k |-> "atom", v |-> x]
Chars(x) == [t |-> "str", k |-> "chars", v |-> x]
Text(n, phrases) == [t |-> "str", k |-> "text", v |-> [len |-> n, has |-> phrases]]
L(x) == [t |-> "list", k |-> "", v |-> x]
I(x) == [t |-> "int", k |-> "", v |-> x]
DateObj == [t |-> "date", k |-> "", v |-> 0]
None == [t |-> "none", k |-> "", v |-> 0]

\* dict.get(field) with the default None
Get(r, f) == IF f \in DOMAIN r THEN r[f] ELSE None

\* ==, on tagged values
PyEq(x, y) == x.t = y.t /\ x.k = y.k /\ x.v = y.v

\* bool(x): None, "", 0 and [] are falsy
Truthy(x) ==
    CASE x.t = "none" -> FALSE
      [] x.t = "int" -> x.v # 0
      [] x.t = "list" -> x.v # <<>>
      [] x.t = "str" /\ x.k = "atom" -> x.v # ""
      [] x.t = "str" /\ x.k = "chars" -> x.v # <<>>
      [] x.t = "str" /\ x.k = "text" -> x.v.len # 0
      [] OTHER -> TRUE

\* f"{x}" of an identifier value
Fmt(x) ==
    CASE x.t = "str" /\ x.k = "atom" -> x.v
      [] x.t = "int" -> ToString(x.v)
      [] x.t = "none" -> "None"
      [] OTHER -> "<object>"

SeqToSet(s) == {s[k] : k \in 1..Len(s)}

----------------------------------------------------------------------------
(* Schema definition, validate.py lines 16-67 *)

REQUIRED_FIELDS ==
    <<"id", "title", "url", "domain", "type", "maturity", "effort", "tags",
      "published", "last_updated", "summary", "why_useful", "good_for">>

VALID_DOMAINS ==
    {"LLMOps-RAG", "ML-Engineering", "DevOps-SRE", "Data-Engineering",
     "Security", "Systems-Tools", "System-Design", "Productivity"}

VALID_TYPES ==
    {"Repo", "Article", "Guide", "Talk", "Tool", "Framework", "Dataset", "Spec"}

VALID_MATURITY == {"Battle-tested", "Emerging", "Experimental"}
VALID_EFFORT == {"Low", "Medium", "High"}
VALID_GOOD_FOR == {"learning", "production", "POCs", "research", "templates"}

MaxDomains == 2
MaxTags == 6
MinSummary == 50
MaxSummary == 300
MinWhyUseful == 30
MaxTitle == 50

generic_phrases ==
    <<"great tool", "awesome", "amazing", "best", "perfect", "helps you",
      "makes it easy", "simple tool">>

----------------------------------------------------------------------------
(* Strings as character sequences: urls and dates *)

UpperChars == <<"A", "B", "C", "D", "E", "F", "G", "H", "I", "J", "K", "L", "M",
                "N", "O", "P", "Q", "R", "S", "T", "U", "V", "W", "X", "Y", "Z">>
LowerChars == <<"a", "b", "c", "d", "e", "f", "g", "h", "i", "j", "k", "l", "m",
                "n", "o", "p", "q", "r", "s", "t", "u", "v", "w", "x", "y", "z">>
DigitChars == <<"0", "1", "2", "3", "4", "5", "6", "7", "8", "9">>

UpperSet == {UpperChars[k] : k \in 1..Len(UpperChars)}
LowerSet == {LowerChars[k] : k \in 1..Len(LowerChars)}
DigitSet == {DigitChars[k] : k \in 1..Len(DigitChars)}

IsUpper(c) == c \in UpperSet
IsLower(c) == c \in LowerSet
IsDigit(c) == c \in DigitSet
IsAlpha(c) == IsUpper(c) \/ IsLower(c)

DigitValues == [c \in DigitSet |-> (CHOOSE k \in 1..Len(DigitChars) : DigitChars[k] = c) - 1]
DigitVal(c) == DigitValues[c]

\* the lower-case letter of each upper-case letter
LowerMap == [c \in UpperSet |-> LowerChars[CHOOSE k \in 1..Len(UpperChars) : UpperChars[k] = c]]

\* str.lower(), one character
LowerChar(c) == IF IsUpper(c) THEN LowerMap[c] ELSE c

\* str.lower()
Lower(s) == [k \in 1..Len(s) |-> LowerChar(s[k])]

\* str.rstrip("/"): every trailing slash goes
RECURSIVE RStripSlash(_)
RStripSlash(s) ==
    IF s # <<>> /\ s[Len(s)] = "/" THEN RStripSlash(SubSeq(s, 1, Len(s) - 1)) ELSE s

StartsWith(s, p) == Len(s) >= Len(p) /\ SubSeq(s, 1, Len(p)) = p

\* p in s (substring)
Contains(s, p) ==
    \E k \in 0..(Len(s) - Len(p)) : SubSeq(s, k + 1, k + Len(p)) = p

\* s.replace(p, ""): every non-overlapping occurrence, scanning left to right
RECURSIVE RemoveAll(_, _)
RemoveAll(s, p) ==
    IF Len(s) < Len(p) THEN s
    ELSE IF StartsWith(s, p) THEN RemoveAll(SubSeq(s, Len(p) + 1, Len(s)), p)
    ELSE <<Head(s)>> \o RemoveAll(Tail(s), p)

\* s.split(sep) for a one-character separator
RECURSIVE Split(_, _)
\* the least member of a non-empty set of positions
First(ks) == CHOOSE k \in ks : \A h \in ks : k <= h

Split(s, sep) ==
    LET at == {k \in 1..Len(s) : s[k] = sep} IN
    IF at = {} THEN <<s>>
    ELSE <<SubSeq(s, 1, First(at) - 1)>> \o Split(SubSeq(s, First(at) + 1, Len(s)), sep)

\* int(s) of a digit string
RECURSIVE ToInt(_)
ToInt(s) == IF s = <<>> THEN 0 ELSE 10 * ToInt(SubSeq(s, 1, Len(s) - 1)) + DigitVal(s[Len(s)])

AllDigits(s) == \A k \in 1..Len(s) : IsDigit(s[k])

Www == <<"w", "w", "w", ".">>
Https == <<"h", "t", "t", "p", "s">>
GithubCom == <<"g", "i", "t", "h", "u", "b", ".", "c", "o", "m">>
GithubPrefix == <<"h", "t", "t", "p", "s", ":", "/", "/",
                  "g", "i", "t", "h", "u", "b", ".", "c", "o", "m", "/">>

----------------------------------------------------------------------------
(* Library calls the validator makes, on character sequences *)

\* ResourceValidator._normalize_url
_normalize_url(url) == RemoveAll(RStripSlash(Lower(url)), Www)

IsSchemeChar(c) == IsAlpha(c) \/ IsDigit(c) \/ c \in {"+", "-", "."}

\* position of the first ":" of url, 0 if none
ColonAt(url) ==
    LET at == {k \in 1..Len(url) : url[k] = ":"} IN
    IF at = {} THEN 0 ELSE First(at)

\* urlsplit takes url[:i] as the scheme when i > 0, url[0] is a letter and
\* every character before the colon is a scheme character
HasScheme(url) ==
    LET colon == ColonAt(url) IN
    /\ colon > 1
    /\ IsAlpha(url[1])
    /\ \A k \in 1..(colon - 1) : IsSchemeChar(url[k])

\* urlparse(url).scheme
UrlScheme(url) ==
    IF HasScheme(url) THEN Lower(SubSeq(url, 1, ColonAt(url) - 1)) ELSE <<>>

\* what urlsplit is left with once the scheme is taken off
AfterScheme(url) ==
    IF HasScheme(url) THEN SubSeq(url, ColonAt(url) + 1, Len(url)) ELSE url

\* urlparse(url).netloc: after a leading "//", up to the first of "/", "?", "#"
UrlNetloc(url) ==
    LET rest == AfterScheme(url) IN
    IF ~StartsWith(rest, <<"/", "/">>) THEN <<>>
    ELSE LET tail == SubSeq(rest, 3, Len(rest))
             stops == {k \in 1..Len(tail) : tail[k] \in {"/", "?", "#"}}
         IN IF stops = {} THEN tail
            ELSE SubSeq(tail, 1, First(stops) - 1)

\* [\w\-\.]
IsRepoChar(c) == IsAlpha(c) \/ IsDigit(c) \/ c \in {"_", "-", "."}
IsRepoName(s) == s # <<>> /\ \A k \in 1..Len(s) : IsRepoChar(s[k])

\* re.match(r"https://github\.com/[\w\-\.]+/[\w\-\.]+/?$", url)
GithubCanonical(url) ==
    /\ StartsWith(url, GithubPrefix)
    /\ LET parts == Split(SubSeq(url, Len(GithubPrefix) + 1, Len(url)), "/") IN
         /\ Len(parts) \in {2, 3}
         /\ IsRepoName(parts[1])
         /\ IsRepoName(parts[2])
         /\ Len(parts) = 3 => parts[3] = <<>>

IsLeapYear(y) == (y % 4 = 0 /\ y % 100 # 0) \/ y % 400 = 0

DaysInMonth(y, m) ==
    IF m = 2 THEN (IF IsLeapYear(y) THEN 29 ELSE 28)
    ELSE IF m \in {4, 6, 9, 11} THEN 30 ELSE 31

\* %m and %d match one or two digits
IsShortNumber(s) == Len(s) \in {1, 2} /\ AllDigits(s)

\* datetime.strptime(s, fmt) returns (raises no ValueError), for fmt "%Y-%m-%d"
\* (withDay) and "%Y-%m": %Y is four digits, the date must exist
StrptimeOk(s, withDay) ==
    LET parts == Split(s, "-") IN
    /\ Len(parts) = (IF withDay THEN 3 ELSE 2)
    /\ Len(parts[1]) = 4 /\ AllDigits(parts[1]) /\ ToInt(parts[1]) >= 1
    /\ IsShortNumber(parts[2]) /\ ToInt(parts[2]) >= 1 /\ ToInt(parts[2]) <= 12
    /\ withDay =>
         /\ IsShortNumber(parts[3])
         /\ ToInt(parts[3]) >= 1
         /\ ToInt(parts[3]) <= DaysInMonth(ToInt(parts[1]), ToInt(parts[2]))

\* lines 184-192: one of the two accepted formats parses
DateIsValid(s) == StrptimeOk(s, TRUE) \/ StrptimeOk(s, FALSE)

----------------------------------------------------------------------------
(* ResourceValidator: the rules of validate_resource                       *)
(*                                                                         *)
(* A rule yields an outcome: exc is "none" when it returned,               *)
(* "ValidationError" when it raised one (kind and arg are its message),    *)
(* "TypeError" when a library call raised on a wrong-typed value; warns    *)
(* are the warnings it appended before that.                               *)

Finding(rid, kind, arg) == [rid |-> rid, kind |-> kind, arg |-> arg]

Returned(w) == [exc |-> "none", kind |-> "", arg |-> <<>>, warns |-> w]
Raised(kind, arg, w) == [exc |-> "ValidationError", kind |-> kind, arg |-> arg, warns |-> w]
Crashed(w) == [exc |-> "TypeError", kind |-> "", arg |-> <<>>, warns |-> w]

\* line 87: resource.get("id", f"resource_{index}")
ResourceId(resource, index) ==
    IF "id" \in DOMAIN resource THEN resource["id"]
    ELSE S("resource_" \o ToString(index))

\* mutant: the scan stops at the first missing field
MissingFields_first_only(resource) ==
    LET missing == SelectSeq(REQUIRED_FIELDS, LAMBDA f : f \notin DOMAIN resource)
    IN IF missing = <<>> THEN <<>> ELSE <<Head(missing)>>

\* line 104: missing_fields
MissingFields(resource) ==
    SelectSeq(REQUIRED_FIELDS, LAMBDA f : f \notin DOMAIN resource)

_validate_required_fields(resource) ==
    IF MissingFields(resource) # <<>>
    THEN Raised("Missing required fields", MissingFields(resource), <<>>)
    ELSE Returned(<<>>)

string_fields ==
    <<"id", "title", "url", "type", "maturity", "effort", "summary", "why_useful">>
list_fields == <<"domain", "tags", "good_for">>
int_fields == <<"github_stars", "setup_time_minutes">>

\* the fields of `fields` that are present and not of type `tag`, in order
WrongTyped(resource, fields, tag) ==
    SelectSeq(fields, LAMBDA f : f \in DOMAIN resource /\ resource[f].t # tag)

_validate_field_types(resource) ==
    IF WrongTyped(resource, string_fields, "str") # <<>>
    THEN Raised("must be a string", <<Head(WrongTyped(resource, string_fields, "str"))>>, <<>>)
    ELSE IF WrongTyped(resource, list_fields, "list") # <<>>
    THEN Raised("must be a list", <<Head(WrongTyped(resource, list_fields, "list"))>>, <<>>)
    ELSE IF WrongTyped(resource, int_fields, "int") # <<>>
    THEN Raised("must be an integer", <<Head(WrongTyped(resource, int_fields, "int"))>>, <<>>)
    ELSE Returned(<<>>)

\* resource.get(field, []) of a list field, as a sequence
ListOf(resource, f) == IF f \in DOMAIN resource THEN resource[f].v ELSE <<>>

\* resource.get(field) not in VALID: a missing field is None, in no enumeration
NotInEnum(resource, f, valid) == f \notin DOMAIN resource \/ resource[f].v \notin valid

\* the string of an enumerated field, for the message
EnumArg(resource, f) == IF f \in DOMAIN resource THEN <<resource[f].v>> ELSE <<"None">>

\* line 173: more than 6 tags is a warning
TagWarnings(resource, rid) ==
    IF Len(ListOf(resource, "tags")) > MaxTags
    THEN <<Finding(rid, "Too many tags", <<>>)>> ELSE <<>>

date_fields == <<"published", "last_updated">>

\* lines 178-197, for the date fields from position k on
RECURSIVE CheckDates(_, _, _)
CheckDates(resource, k, w) ==
    IF k > Len(date_fields) THEN Returned(w)
    ELSE LET field == date_fields[k] IN
         IF field \notin DOMAIN resource THEN CheckDates(resource, k + 1, w)
         ELSE IF resource[field].t # "str" THEN Crashed(w)
         ELSE IF ~DateIsValid(resource[field].v)
         THEN Raised("Invalid date format", <<field>>, w)
         ELSE CheckDates(resource, k + 1, w)

_validate_field_values(resource, rid) ==
    IF Len(ListOf(resource, "domain")) > MaxDomains
    THEN Raised("Maximum 2 domains allowed", <<>>, <<>>)
    ELSE IF SelectSeq(ListOf(resource, "domain"), LAMBDA d : d \notin VALID_DOMAINS) # <<>>
    THEN Raised("Invalid domains",
                SelectSeq(ListOf(resource, "domain"), LAMBDA d : d \notin VALID_DOMAINS), <<>>)
    ELSE IF NotInEnum(resource, "type", VALID_TYPES)
    THEN Raised("Invalid type", EnumArg(resource, "type"), <<>>)
    ELSE IF NotInEnum(resource, "maturity", VALID_MATURITY)
    THEN Raised("Invalid maturity", EnumArg(resource, "maturity"), <<>>)
    ELSE IF NotInEnum(resource, "effort", VALID_EFFORT)
    THEN Raised("Invalid effort", EnumArg(resource, "effort"), <<>>)
    ELSE CheckDates(resource, 1, TagWarnings(resource, rid))

\* mutant: the id is registered before it is looked up
_validate_uniqueness_add_first(resource, rid, ids, urls) ==
    [out |-> Raised("Duplicate ID", <<rid>>, <<>>), ids |-> ids \cup {rid}, urls |-> urls]

\* mutant: the id is looked up and never registered
_validate_uniqueness_no_register(resource, rid, ids, urls) ==
    IF rid \in ids
    THEN [out |-> Raised("Duplicate ID", <<rid>>, <<>>), ids |-> ids, urls |-> urls]
    ELSE IF ~Truthy(Get(resource, "url"))
    THEN [out |-> Returned(<<>>), ids |-> ids, urls |-> urls]
    ELSE IF _normalize_url(resource["url"].v) \in urls
    THEN [out |-> Raised("Duplicate URL", resource["url"].v, <<>>), ids |-> ids, urls |-> urls]
    ELSE [out |-> Returned(<<>>), ids |-> ids,
          urls |-> urls \cup {_normalize_url(resource["url"].v)}]

\* _validate_uniqueness: the outcome, and the two sets as it leaves them
_validate_uniqueness(resource, rid, ids, urls) ==
    IF rid \in ids
    THEN [out |-> Raised("Duplicate ID", <<rid>>, <<>>), ids |-> ids, urls |-> urls]
    ELSE IF ~Truthy(Get(resource, "url"))
    THEN [out |-> Returned(<<>>), ids |-> ids \cup {rid}, urls |-> urls]
    ELSE IF _normalize_url(resource["url"].v) \in urls
    THEN [out |-> Raised("Duplicate URL", resource["url"].v, <<>>),
          ids |-> ids \cup {rid}, urls |-> urls]
    ELSE [out |-> Returned(<<>>), ids |-> ids \cup {rid},
          urls |-> urls \cup {_normalize_url(resource["url"].v)}]

\* resource.get(field, "") of a text field
TextOf(resource, f) ==
    IF f \in DOMAIN resource THEN resource[f].v ELSE [len |-> 0, has |-> {}]

_validate_content_quality(resource, rid) ==
    LET summary == TextOf(resource, "summary")
        why_useful == TextOf(resource, "why_useful")
        title == TextOf(resource, "title")
    IN Returned(
        (IF summary.len < MinSummary THEN <<Finding(rid, "Summary too short", <<>>)>>
         ELSE IF summary.len > MaxSummary THEN <<Finding(rid, "Summary too long", <<>>)>>
         ELSE <<>>)
        \o (IF why_useful.len < MinWhyUseful
            THEN <<Finding(rid, "why_useful too short", <<>>)>> ELSE <<>>)
        \o (IF title.len > MaxTitle THEN <<Finding(rid, "Title too long", <<>>)>> ELSE <<>>)
        \o [k \in 1..Len(SelectSeq(generic_phrases,
                                   LAMBDA p : p \in summary.has \cup why_useful.has))
              |-> Finding(rid, "Avoid generic phrase",
                          <<SelectSeq(generic_phrases,
                                      LAMBDA p : p \in summary.has \cup why_useful.has)[k]>>)])

_validate_url_format(resource, rid) ==
    IF ~Truthy(Get(resource, "url")) THEN Returned(<<>>)
    ELSE LET url == resource["url"].v IN
         IF UrlScheme(url) = <<>> \/ UrlNetloc(url) = <<>>
         THEN Raised("Invalid URL format", url, <<>>)
         ELSE Returned(
             (IF UrlScheme(url) # Https
              THEN <<Finding(rid, "Consider HTTPS URL", <<>>)>> ELSE <<>>)
             \o (IF Contains(url, GithubCom) /\ ~GithubCanonical(url)
                 THEN <<Finding(rid, "GitHub URL should be in format", <<>>)>> ELSE <<>>))

\* mutant: a value-constraint failure is reported and the uniqueness rule
\* still registers the record
validate_resource_value_continues(resource, index, ids, urls) ==
    LET rid == Fmt(ResourceId(resource, index))
        required == _validate_required_fields(resource)
        types == _validate_field_types(resource)
        values == _validate_field_values(resource, rid)
        unique == _validate_uniqueness(resource, rid, ids, urls)
        quality == _validate_content_quality(resource, rid)
        format == _validate_url_format(resource, rid)
        Stop(o, w, i, u) ==
            [exc |-> o.exc,
             errs |-> IF o.exc = "ValidationError"
                      THEN <<Finding(rid, o.kind, o.arg)>> ELSE <<>>,
             warns |-> w \o o.warns, ids |-> i, urls |-> u]
    IN IF required.exc # "none" THEN Stop(required, <<>>, ids, urls)
       ELSE IF types.exc # "none" THEN Stop(types, <<>>, ids, urls)
       ELSE IF values.exc # "none" THEN Stop(values, <<>>, unique.ids, unique.urls)
       ELSE IF unique.out.exc # "none"
       THEN Stop(unique.out, values.warns, unique.ids, unique.urls)
       ELSE Stop(format, values.warns \o quality.warns, unique.ids, unique.urls)

\* validate_resource: the rules in order, up to the first that raises; the
\* `except ValidationError` turns a ValidationError into one error finding, any
\* other exception leaves the method. errs is what it appends to self.errors.
validate_resource(resource, index, ids, urls) ==
    LET rid == Fmt(ResourceId(resource, index))
        required == _validate_required_fields(resource)
        types == _validate_field_types(resource)
        values == _validate_field_values(resource, rid)
        unique == _validate_uniqueness(resource, rid, ids, urls)
        quality == _validate_content_quality(resource, rid)
        format == _validate_url_format(resource, rid)
        Stop(o, w, i, u) ==
            [exc |-> o.exc,
             errs |-> IF o.exc = "ValidationError"
                      THEN <<Finding(rid, o.kind, o.arg)>> ELSE <<>>,
             warns |-> w \o o.warns, ids |-> i, urls |-> u]
    IN IF required.exc # "none" THEN Stop(required, <<>>, ids, urls)
       ELSE IF types.exc # "none" THEN Stop(types, <<>>, ids, urls)
       ELSE IF values.exc # "none" THEN Stop(values, <<>>, ids, urls)
       ELSE IF unique.out.exc # "none"
       THEN Stop(unique.out, values.warns, unique.ids, unique.urls)
       ELSE Stop(format, values.warns \o quality.warns, unique.ids, unique.urls)

\* line 301: all_ids, the ids that are strings (a related entry is a string in
\* every collection of this model, and equals no None and no integer)
AllIds(resources) ==
    {resources[k]["id"].v :
        k \in {j \in 1..Len(resources) :
                 "id" \in DOMAIN resources[j] /\ resources[j]["id"].t = "str"}}

\* lines 305-311 for one record: its dangling entries, in order
DanglingEntries(resource, all_ids) ==
    SelectSeq(ListOf(resource, "related"), LAMBDA e : e \notin all_ids)

\* validate_cross_references from record k on: iterating a `related` that is
\* no list raises TypeError, after the errors of the records before it
RECURSIVE CrossReferencesFrom(_, _, _)
CrossReferencesFrom(resources, k, acc) ==
    IF k > Len(resources) THEN [exc |-> "none", errs |-> acc]
    ELSE IF "related" \in DOMAIN resources[k] /\ resources[k]["related"].t # "list"
    THEN [exc |-> "TypeError", errs |-> acc]
    ELSE LET dangling == DanglingEntries(resources[k], AllIds(resources)) IN
         CrossReferencesFrom(resources, k + 1,
             acc \o [j \in 1..Len(dangling) |->
                       Finding(Fmt(Get(resources[k], "id")), "Invalid related ID",
                               <<dangling[j]>>)])

validate_cross_references(resources) == CrossReferencesFrom(resources, 1, <<>>)

\* mutant: the isinstance(data["resources"], list) check is missing
load_without_list_check(d) ==
    CASE d.shape = "missing" -> "FileNotFoundError"
      [] d.shape = "unparseable" -> "ValidationError"
      [] d.shape = "notdict" -> "ValidationError"
      [] d.shape = "nokey" -> "ValidationError"
      [] OTHER -> "none"

\* load_and_validate_yaml: the exception it raises for the document, "none" if
\* it returns the data
load_and_validate_yaml(d) ==
    CASE d.shape = "missing" -> "FileNotFoundError"
      [] d.shape = "unparseable" -> "ValidationError"
      [] d.shape = "notdict" -> "ValidationError"
      [] d.shape = "nokey" -> "ValidationError"
      [] d.shape = "notlist" -> "ValidationError"
      [] OTHER -> "none"

\* lines 406-416: the exit code of a run that reached the report
ExitCode(errs, warns) == IF errs # <<>> THEN 1 ELSE 0

----------------------------------------------------------------------------
(* validate.py main() *)

\* lines 367-375, and 418-420 when loading raises
LoadStore ==
    /\ pc = "load"
    /\ raised' = load_and_validate_yaml(doc)
    /\ pc' = IF raised' # "none" THEN "done"
             ELSE IF doc.resources = <<>> THEN "xref" ELSE "validate"
    /\ rc' = IF raised' # "none" THEN 1 ELSE rc
    /\ UNCHANGED <<doc, idx, errors, warnings, seen_ids, seen_urls, reported>>
    /\ UNCHANGED <<notvalidator, runs>>

\* lines 378-379, one iteration; 418-420 when validate_resource lets an
\* exception out
ValidateResource ==
    /\ pc = "validate"
    /\ LET o == validate_resource(doc.resources[idx + 1], idx, seen_ids, seen_urls) IN
         /\ errors' = errors \o o.errs
         /\ warnings' = warnings \o o.warns
         /\ seen_ids' = o.ids
         /\ seen_urls' = o.urls
         /\ raised' = IF o.exc = "TypeError" THEN "TypeError" ELSE raised
         /\ idx' = idx + 1
         /\ pc' = IF o.exc = "TypeError" THEN "done"
                  ELSE IF idx + 1 = Len(doc.resources) THEN "xref" ELSE "validate"
         /\ rc' = IF o.exc = "TypeError" THEN 1 ELSE rc
    /\ UNCHANGED <<doc, reported>>
    /\ UNCHANGED <<notvalidator, runs>>

\* line 382; 418-420 when it raises
CrossReferences ==
    /\ pc = "xref"
    /\ LET o == validate_cross_references(doc.resources) IN
         /\ errors' = errors \o o.errs
         /\ raised' = o.exc
         /\ pc' = IF o.exc # "none" THEN "done" ELSE "report"
         /\ rc' = IF o.exc # "none" THEN 1 ELSE rc
    /\ UNCHANGED <<doc, idx, warnings, seen_ids, seen_urls, reported>>
    /\ UNCHANGED <<notvalidator, runs>>

\* lines 388-416: the itemized report and the exit code
Report ==
    /\ pc = "report"
    /\ reported' = TRUE
    /\ rc' = ExitCode(errors, warnings)
    /\ pc' = "done"
    /\ UNCHANGED <<doc, idx, errors, warnings, seen_ids, seen_urls, raised>>
    /\ UNCHANGED <<notvalidator, runs>>

Next == LoadStore \/ ValidateResource \/ CrossReferences \/ Report

----------------------------------------------------------------------------
(* The collections the runs are given *)

U_base == <<"h", "t", "t", "p", "s", ":", "/", "/", "f", "o", "o", ".", "c", "o", "m", "/", "b", "a", "r">>
U_caps == <<"h", "t", "t", "p", "s", ":", "/", "/", "F", "o", "o", ".", "c", "o", "m", "/", "B", "a", "r", "/">>
U_www == <<"h", "t", "t", "p", "s", ":", "/", "/", "w", "w", "w", ".", "f", "o", "o", ".", "c", "o", "m", "/", "b", "a", "r">>
U_mid == <<"h", "t", "t", "p", "s", ":", "/", "/", "f", "o", "o", ".", "c", "o", "m", "/", "w", "w", "w", ".", "b", "a", "r">>
U_bare == <<"f", "o", "o", ".", "c", "o", "m", "/", "b", "a", "r">>
U_http == <<"h", "t", "t", "p", ":", "/", "/", "f", "o", "o", ".", "c", "o", "m", "/", "b", "a", "r">>
U_other == <<"h", "t", "t", "p", "s", ":", "/", "/", "b", ".", "i", "o">>
U_dot == <<"h", "t", "t", "p", "s", ":", "/", "/", "b", ".", "i", "o", "/", "w", "w", "w", ".">>
U_gh == <<"h", "t", "t", "p", "s", ":", "/", "/", "g", "i", "t", "h", "u", "b", ".", "c", "o", "m", "/", "o", "/", "r">>
U_ghbad == <<"h", "t", "t", "p", "s", ":", "/", "/", "g", "i", "t", "h", "u", "b", ".", "c", "o", "m", "/", "o">>
D_full == <<"2", "0", "2", "4", "-", "0", "2", "-", "2", "9">>
D_month == <<"2", "0", "2", "3", "-", "1", "1">>
D_slash == <<"2", "0", "2", "4", "/", "0", "1", "/", "1", "5">>
D_badday == <<"2", "0", "2", "3", "-", "0", "2", "-", "2", "9">>

Urls == {U_base, U_caps, U_www, U_mid, U_bare, U_http, U_other, U_gh, U_ghbad, <<>>}
Ids == {"a", "b"}

\* a record that passes every rule without a warning
Base(id, url) ==
    [id |-> S(id), title |-> Text(20, {}), url |-> Chars(url),
     domain |-> L(<<"Security">>), type |-> S("Tool"), maturity |-> S("Emerging"),
     effort |-> S("Low"), tags |-> L(<<"cli", "rag">>),
     published |-> Chars(D_full), last_updated |-> Chars(D_month),
     summary |-> Text(80, {}), why_useful |-> Text(40, {}),
     good_for |-> L(<<"learning">>)]

With(r, f, x) == [g \in DOMAIN r \cup {f} |-> IF g = f THEN x ELSE r[g]]
Without(r, fs) == [g \in DOMAIN r \ fs |-> r[g]]

BaseA == Base("a", U_base)

WrongTypeRecords ==
    {With(BaseA, "id", I(7)), With(BaseA, "url", I(1)),
     With(BaseA, "domain", S("Security")), With(BaseA, "github_stars", S("many")),
     With(BaseA, "published", DateObj)}

BadValueRecords ==
    {With(BaseA, "domain", L(<<"Security", "Productivity", "DevOps-SRE">>)),
     With(BaseA, "domain", L(<<"Security", "Cooking">>)),
     With(BaseA, "domain", L(<<>>)),
     With(BaseA, "type", S("Blog")), With(BaseA, "maturity", S("Stable")),
     With(BaseA, "effort", S("Huge")), With(BaseA, "good_for", L(<<"fun">>)),
     With(BaseA, "published", Chars(D_slash)),
     With(BaseA, "last_updated", Chars(D_badday))}

WarningRecords ==
    {With(BaseA, "tags", L(<<"a", "b", "c", "d", "e", "f", "g">>)),
     With(BaseA, "summary", Text(10, {"best"})),
     With(BaseA, "domain", L(<<"Security", "Productivity">>))}

MissingFieldRecords ==
    {Without(BaseA, {"id"}), Without(BaseA, {"url"}), Without(BaseA, {"title", "summary"})}

RelatedRecords ==
    {With(BaseA, "related", L(<<"b">>)), With(BaseA, "related", L(<<"a">>)),
     With(BaseA, "related", L(<<"zz", "zz">>)), With(BaseA, "related", I(5))}

Pool ==
    {Base("a", url) : url \in Urls}
    \cup {Base("b", url) : url \in {U_base, U_caps, U_mid, U_other, U_dot}}
    \cup WrongTypeRecords \cup BadValueRecords \cup WarningRecords
    \cup MissingFieldRecords \cup RelatedRecords

\* sequences over `set` of length at most n
SeqsUpTo(set, n) == UNION {[1..m -> set] : m \in 0..n}

DocShapes == {"missing", "unparseable", "notdict", "nokey", "notlist"}

Documents ==
    {[shape |-> sh, resources |-> <<>>] : sh \in DocShapes}
    \cup {[shape |-> "ok", resources |-> rs] : rs \in SeqsUpTo(Pool, MaxRecords)}

\* the validator before main() starts (ResourceValidator.__init__, lines 79-83)
ValidatorIdle ==
    /\ pc = "load"
    /\ idx = 0
    /\ errors = <<>>
    /\ warnings = <<>>
    /\ seen_ids = {}
    /\ seen_urls = {}
    /\ raised = "none"
    /\ reported = FALSE
    /\ rc = -1
    /\ runs = <<>>

DifferencerOff ==
    /\ current_resources = <<>>
    /\ previous_resources = <<>>
    /\ dpc = "off"
    /\ todo_ids = {}
    /\ new_resources = <<>>
    /\ removed_resources = <<>>
    /\ modified_resources = <<>>

Init ==
    /\ doc \in Documents
    /\ ValidatorIdle
    /\ DifferencerOff
    /\ GeneratorOff
    /\ StarsOff
    /\ LinksOff

Spec == Init /\ [][Next]_vars

----------------------------------------------------------------------------
(* analyze_changes.py: analyze_resources_changes, lines 99-123, on the two   *)
(* snapshots it has loaded                                                  *)

\* mutant: the star count is compared as well
compare_fields_with_stars ==
    <<"title", "url", "domains", "type", "maturity", "tags", "summary",
      "why_useful", "good_for", "github_stars">>

compare_fields ==
    <<"title", "url", "domains", "type", "maturity", "tags", "summary",
      "why_useful", "good_for">>

\* {r.get('id') for r in resources if r.get('id')}
IdSet(resources) ==
    {Get(resources[k], "id").v :
        k \in {j \in 1..Len(resources) : Truthy(Get(resources[j], "id"))}}

\* mutant: the operands of the set difference are swapped
NewIds_swapped(current, previous) == IdSet(previous) \ IdSet(current)

\* lines 104-106
NewIds(current, previous) == IdSet(current) \ IdSet(previous)
RemovedIds(current, previous) == IdSet(previous) \ IdSet(current)
PotentiallyModifiedIds(current, previous) == IdSet(current) \cap IdSet(previous)

\* r.get('id') in ids, for a set of string ids
IdIn(r, ids) == Get(r, "id").t = "str" /\ Get(r, "id").v \in ids

\* lines 108-109: [r for r in resources if r.get('id') in ids]
WithIdIn(resources, ids) == SelectSeq(resources, LAMBDA r : IdIn(r, ids))

\* get_resource_by_id: the first record with the id; {} if there is none
get_resource_by_id(resources, resource_id) ==
    IF \E k \in 1..Len(resources) : IdIn(resources[k], {resource_id})
    THEN resources[CHOOSE k \in 1..Len(resources) :
                      /\ IdIn(resources[k], {resource_id})
                      /\ \A h \in 1..(k - 1) : ~IdIn(resources[h], {resource_id})]
    ELSE <<>>

\* lines 120-123: some compared field differs
Differs(current_resource, previous_resource) ==
    \E k \in 1..Len(compare_fields) :
        ~PyEq(Get(current_resource, compare_fields[k]),
              Get(previous_resource, compare_fields[k]))

\* lines 100-109
AnalyzeStart ==
    /\ dpc = "start"
    /\ new_resources' =
           WithIdIn(current_resources, NewIds(current_resources, previous_resources))
    /\ removed_resources' =
           WithIdIn(previous_resources, RemovedIds(current_resources, previous_resources))
    /\ todo_ids' = PotentiallyModifiedIds(current_resources, previous_resources)
    /\ dpc' = "modified"
    /\ UNCHANGED <<current_resources, previous_resources, modified_resources>>
    /\ UNCHANGED notdifferencer

\* lines 113-123, one iteration: the loop walks a set, in whatever order the
\* string hashes of this process give it
CheckModified ==
    /\ dpc = "modified"
    /\ \E resource_id \in todo_ids :
         /\ modified_resources' =
                IF Differs(get_resource_by_id(current_resources, resource_id),
                           get_resource_by_id(previous_resources, resource_id))
                THEN Append(modified_resources,
                            get_resource_by_id(current_resources, resource_id))
                ELSE modified_resources
         /\ todo_ids' = todo_ids \ {resource_id}
    /\ UNCHANGED <<current_resources, previous_resources, dpc,
                   new_resources, removed_resources>>
    /\ UNCHANGED notdifferencer

\* lines 142-147: the lists are returned
AnalyzeReturn ==
    /\ dpc = "modified"
    /\ todo_ids = {}
    /\ dpc' = "done"
    /\ UNCHANGED <<current_resources, previous_resources, todo_ids,
                   new_resources, removed_resources, modified_resources>>
    /\ UNCHANGED notdifferencer

NextDiff == AnalyzeStart \/ CheckModified \/ AnalyzeReturn

\* a snapshot record: what the differencer reads of a resource
Snap(id) ==
    [id |-> S(id), title |-> S("T1"), domain |-> L(<<"Security">>),
     tags |-> L(<<"cli">>), github_stars |-> I(1)]

SnapVariants(r) ==
    {r, With(r, "title", S("T2")), With(r, "github_stars", I(2)),
     With(r, "domain", L(<<"Security", "Productivity">>))}

SnapPool ==
    SnapVariants(Snap("a"))
    \cup {With(Snap("a"), "domains", L(<<"Security">>))}
    \cup {Snap("b"), With(Snap("b"), "title", S("T2"))}
    \cup {Snap(""), With(Snap(""), "title", S("T2")), Without(Snap("a"), {"id"})}

\* (current, previous) with at most MaxSnapshotRecords records between them
SnapshotPairs ==
    UNION {UNION {[1..m -> SnapPool] \X [1..n -> SnapPool] :
                    n \in 0..(MaxSnapshotRecords - m)} :
             m \in 0..MaxSnapshotRecords}

ValidatorOff ==
    /\ doc = [shape |-> "ok", resources |-> <<>>]
    /\ pc = "off"
    /\ idx = 0
    /\ errors = <<>>
    /\ warnings = <<>>
    /\ seen_ids = {}
    /\ seen_urls = {}
    /\ raised = "none"
    /\ reported = FALSE
    /\ rc = -1
    /\ runs = <<>>

InitDiff ==
    /\ \E p \in SnapshotPairs : current_resources = p[1] /\ previous_resources = p[2]
    /\ dpc = "start"
    /\ todo_ids = {}
    /\ new_resources = <<>>
    /\ removed_resources = <<>>
    /\ modified_resources = <<>>
    /\ ValidatorOff
    /\ GeneratorOff
    /\ StarsOff
    /\ LinksOff

SpecDiff == InitDiff /\ [][NextDiff]_vars

----------------------------------------------------------------------------
(* Single-record runs over every subset of the required fields *)

RequiredSet == SeqToSet(REQUIRED_FIELDS)

\* a record with a second fault and a dangling reference, to see that the
\* presence rule comes first
BaseFaulty == With(With(BaseA, "maturity", S("Stable")), "related", L(<<"zz">>))

InitFields ==
    /\ \E fs \in SUBSET RequiredSet, b \in {BaseA, BaseFaulty} :
           doc = [shape |-> "ok", resources |-> <<Without(b, fs)>>]
    /\ ValidatorIdle
    /\ DifferencerOff
    /\ GeneratorOff
    /\ StarsOff
    /\ LinksOff

SpecFields == InitFields /\ [][Next]_vars

----------------------------------------------------------------------------
(* What the claims speak of *)

\* the record validate_resource is about to be given
NextRecord == doc.resources[idx + 1]
\* the records given to it before
Earlier == SubSeq(doc.resources, 1, idx)

HasStrId(r) == "id" \in DOMAIN r /\ r["id"].t = "str"
SameId(r, q) == HasStrId(r) /\ HasStrId(q) /\ r["id"].v = q["id"].v
HasUrl(r) == "url" \in DOMAIN r /\ r["url"].t = "str" /\ r["url"].v # <<>>

\* the findings of `kind` in a list of findings
OfKind(findings, kind) == SelectSeq(findings, LAMBDA e : e.kind = kind)

\* the step appended exactly the findings `added` to self.errors
ErrorsGain(added) == errors' = errors \o added

\* all required fields present
AllPresent(r) == \A f \in RequiredSet : f \in DOMAIN r

\* rule 2 of the schema: strings are strings, lists are lists, the optional
\* counters are integers
TypesCorrect(r) ==
    /\ \A f \in {"id", "title", "url", "type", "maturity", "effort", "summary", "why_useful"} :
           f \in DOMAIN r => r[f].t = "str"
    /\ \A f \in {"domain", "tags", "good_for"} : f \in DOMAIN r => r[f].t = "list"
    /\ \A f \in {"github_stars", "setup_time_minutes"} : f \in DOMAIN r => r[f].t = "int"

\* every enumerated field holds values of its enumeration
EnumsValid(r) ==
    /\ SeqToSet(r["domain"].v) \subseteq VALID_DOMAINS
    /\ r["type"].v \in VALID_TYPES
    /\ r["maturity"].v \in VALID_MATURITY
    /\ r["effort"].v \in VALID_EFFORT
    /\ SeqToSet(r["good_for"].v) \subseteq VALID_GOOD_FOR

\* the premise of C1 as the spec words it
ValidAsWorded(r, earlier) ==
    /\ AllPresent(r) /\ TypesCorrect(r) /\ EnumsValid(r)
    /\ \A k \in 1..Len(earlier) : ~SameId(r, earlier[k])
    /\ \A k \in 1..Len(earlier) :
           ~(HasUrl(earlier[k]) /\ HasUrl(r) /\ earlier[k]["url"].v = r["url"].v)

\* the premise of C1 as amended: also at most two domains, both dates strings
\* of an accepted format, a url with scheme and host, and a normalized url no
\* earlier record has
ValidAsAmended(r, earlier) ==
    /\ AllPresent(r) /\ TypesCorrect(r) /\ EnumsValid(r)
    /\ Len(r["domain"].v) <= 2
    /\ \A f \in {"published", "last_updated"} : r[f].t = "str" /\ DateIsValid(r[f].v)
    /\ HasUrl(r) /\ UrlScheme(r["url"].v) # <<>> /\ UrlNetloc(r["url"].v) # <<>>
    /\ \A k \in 1..Len(earlier) : ~SameId(r, earlier[k])
    /\ \A k \in 1..Len(earlier) :
           ~(HasUrl(earlier[k]) /\ HasUrl(r)
             /\ _normalize_url(earlier[k]["url"].v) = _normalize_url(r["url"].v))

\* C1 as worded: a record with all required fields, correct types, enum-valid
\* values and an id and url no earlier record has gets no error from
\* validate_resource. Violated: the url and date formats and the domain count
\* are checked too.
C1_ValidAsWordedNoError ==
    [][(pc = "validate" /\ ValidAsWorded(NextRecord, Earlier)) => ErrorsGain(<<>>)]_vars

\* C1 as amended: a record with all required fields, correct types, at most two
\* domains, enum-valid values, published and last_updated strings that parse as
\* YYYY-MM-DD or YYYY-MM, a url with a scheme and a host, an id no earlier
\* record has and a normalized url no earlier record has gets no error from
\* validate_resource, and validate_resource returns normally.
C1_ValidRecordNoError ==
    [][(pc = "validate" /\ ValidAsAmended(NextRecord, Earlier))
          => (ErrorsGain(<<>>) /\ raised' = "none" /\ pc' # "done")]_vars

\* two valid records validated, no error
C1_Witness ==
    /\ pc = "xref" /\ idx = 2 /\ errors = <<>>
    /\ \A k \in 1..2 : ValidAsAmended(doc.resources[k], SubSeq(doc.resources, 1, k - 1))

\* C2: a record lacking required fields gets exactly one error from
\* validate_resource, attributed to it, whose list holds each missing required
\* field once and nothing else (so a single missing field is named alone).
C2_MissingFieldsOneError ==
    [][(pc = "validate" /\ ~AllPresent(NextRecord)) =>
          /\ Len(errors') = Len(errors) + 1
          /\ SubSeq(errors', 1, Len(errors)) = errors
          /\ LET e == errors'[Len(errors')] IN
               /\ e.kind = "Missing required fields"
               /\ e.rid = Fmt(ResourceId(NextRecord, idx))
               /\ SeqToSet(e.arg) = {f \in RequiredSet : f \notin DOMAIN NextRecord}
               /\ Len(e.arg) = Cardinality(SeqToSet(e.arg))]_vars

\* a record without three of its required fields, one error naming the three
C2_Witness ==
    /\ pc = "xref" /\ Len(errors) = 1
    /\ errors[1].kind = "Missing required fields"
    /\ Len(errors[1].arg) = 3
    /\ Cardinality(RequiredSet \ DOMAIN doc.resources[1]) = 3

\* the record passes the presence, type and value rules (rules 1 to 3)
PassesRules(r) ==
    /\ _validate_required_fields(r).exc = "none"
    /\ _validate_field_types(r).exc = "none"
    /\ _validate_field_values(r, "").exc = "none"

\* the records of the collection that carry the id of record k
Occurrences(k) ==
    {j \in 1..Len(doc.resources) : SameId(doc.resources[j], doc.resources[k])}

DuplicateIdErrors(id) ==
    SelectSeq(errors, LAMBDA e : e.kind = "Duplicate ID" /\ e.rid = id)

\* C3 as worded: once the records are validated, an id two records carry has a
\* duplicate-id error for its second occurrence and none for its first.
\* Violated: an occurrence that fails an earlier rule is neither registered nor
\* checked for uniqueness.
C3_SecondOccurrenceFlagged ==
    pc = "xref" =>
        \A k \in 1..Len(doc.resources) :
            Cardinality(Occurrences(k)) >= 2 =>
                Len(DuplicateIdErrors(doc.resources[k]["id"].v))
                    \in 1..(Cardinality(Occurrences(k)) - 1)

\* C3 as amended: validate_resource reports a duplicate-id error for a record
\* exactly when the record passes the presence, type and value rules and an
\* earlier record that passed them too carries the same id; so the first
\* occurrence of an id is never flagged, and of two occurrences that pass those
\* rules the second is.
C3_DuplicateIdOnLaterValid ==
    [][pc = "validate" =>
          OfKind(errors', "Duplicate ID") =
              OfKind(errors, "Duplicate ID")
              \o (IF /\ PassesRules(NextRecord)
                     /\ \E k \in 1..idx : /\ SameId(NextRecord, Earlier[k])
                                          /\ PassesRules(Earlier[k])
                  THEN <<Finding(NextRecord["id"].v, "Duplicate ID",
                                 <<NextRecord["id"].v>>)>>
                  ELSE <<>>)]_vars

\* two records with one id, the second flagged
C3_Witness ==
    /\ pc = "xref" /\ idx = 2
    /\ SameId(doc.resources[1], doc.resources[2])
    /\ errors = <<Finding(doc.resources[2]["id"].v, "Duplicate ID",
                          <<doc.resources[2]["id"].v>>)>>

\* the url without a "www." that opens it or follows its "://"
StripWwwPrefix(s) ==
    IF StartsWith(s, Www) THEN SubSeq(s, Len(Www) + 1, Len(s))
    ELSE IF \E k \in 1..Len(s) : StartsWith(SubSeq(s, k, Len(s)), <<":", "/", "/">> \o Www)
    THEN LET k == CHOOSE j \in 1..Len(s) :
                      /\ StartsWith(SubSeq(s, j, Len(s)), <<":", "/", "/">> \o Www)
                      /\ \A h \in 1..(j - 1) :
                             ~StartsWith(SubSeq(s, h, Len(s)), <<":", "/", "/">> \o Www)
         IN SubSeq(s, 1, k + 2) \o SubSeq(s, k + 3 + Len(Www), Len(s))
    ELSE s

\* normalization as the spec words it: lower-cased, trailing slash stripped,
\* the "www." prefix removed, nothing else changed
NormalizedAsWorded(url) == StripWwwPrefix(RStripSlash(Lower(url)))

\* every record reaches the url check of the uniqueness rule: it passes rules
\* 1 to 3, has a url, and no two records share an id
AllReachUrlCheck ==
    /\ \A k \in 1..Len(doc.resources) :
           PassesRules(doc.resources[k]) /\ HasUrl(doc.resources[k])
    /\ \A j, k \in 1..Len(doc.resources) :
           j # k => ~SameId(doc.resources[j], doc.resources[k])

\* C4: in a collection whose records all reach the url check, a record gets a
\* duplicate-URL error exactly when its url, normalized as the spec words it,
\* equals the normalized url of an earlier record.
C4_DuplicateUrlIffNormalizedEqual ==
    (pc = "xref" /\ AllReachUrlCheck) =>
        \A k \in 1..Len(doc.resources) :
            (\E e \in SeqToSet(errors) :
                 e.kind = "Duplicate URL" /\ e.rid = doc.resources[k]["id"].v)
            <=> (\E j \in 1..(k - 1) :
                     NormalizedAsWorded(doc.resources[j]["url"].v)
                         = NormalizedAsWorded(doc.resources[k]["url"].v))

\* entry e of record k's related list resolves as the spec words it: it is the
\* id of some other record
ResolvesToOther(k, e) ==
    \E j \in 1..Len(doc.resources) :
        j # k /\ HasStrId(doc.resources[j]) /\ doc.resources[j]["id"].v = e

\* the cross-reference errors the spec's wording asks for, records k..n
RECURSIVE CrossReferenceErrorsAsWorded(_)
CrossReferenceErrorsAsWorded(k) ==
    IF k > Len(doc.resources) THEN <<>>
    ELSE LET dangling == SelectSeq(ListOf(doc.resources[k], "related"),
                                   LAMBDA e : ~ResolvesToOther(k, e))
         IN [j \in 1..Len(dangling) |->
                Finding(Fmt(Get(doc.resources[k], "id")), "Invalid related ID",
                        <<dangling[j]>>)]
            \o CrossReferenceErrorsAsWorded(k + 1)

\* C5: validate_cross_references adds one error, attributed to record r, for
\* each entry of r.related that is not the id of some other record, and no
\* other error.
C5_OneErrorPerDanglingEntry ==
    pc = "report" =>
        OfKind(errors, "Invalid related ID") = CrossReferenceErrorsAsWorded(1)

\* C6: the run returns non-zero exactly when there is a fatal load error or at
\* least one per-record or cross-reference error; warnings alone return zero.
C6_FailureIffError ==
    pc = "done" => (rc # 0 <=> (doc.shape # "ok" \/ errors # <<>>))

\* C7: validate_resource lets no exception out, whatever the record holds.
C7_NoExceptionEscapes ==
    [][pc = "validate" => raised' = "none"]_vars

\* C8: a run in which a record got a validation error still validates every
\* record, runs the cross-reference check and ends with the report.
C8_ErrorNeverAborts ==
    (pc = "done" /\ \E e \in SeqToSet(errors) : e.kind # "Invalid related ID")
        => reported

\* C9: with the store missing, the document unparseable, the root no mapping,
\* the resources key absent or its value no sequence, the run ends at once with
\* status 1: no record validated, no finding collected, no report.
C9_LoadErrorsAreFatal ==
    (doc.shape \in {"missing", "unparseable", "notdict", "nokey", "notlist"} /\ pc # "load")
        => /\ pc = "done" /\ rc = 1 /\ raised # "none"
           /\ idx = 0 /\ ~reported
           /\ errors = <<>> /\ warnings = <<>> /\ seen_ids = {} /\ seen_urls = {}

\* a run ended by a resources value that is no sequence
C9_Witness == doc.shape = "notlist" /\ pc = "done" /\ rc = 1 /\ raised = "ValidationError"

\* the ids the records of a snapshot carry, the empty string among them
IdsPresent(resources) ==
    {resources[k]["id"].v : k \in {j \in 1..Len(resources) : HasStrId(resources[j])}}

\* some record of the list carries the id
Appears(id, list) == \E k \in 1..Len(list) : HasStrId(list[k]) /\ list[k]["id"].v = id

InNoList(id) ==
    /\ ~Appears(id, new_resources)
    /\ ~Appears(id, removed_resources)
    /\ ~Appears(id, modified_resources)

\* the two records have the same value, or both none, in every comparison field
SameComparisonFields(r, q) ==
    \A f \in {"title", "url", "domains", "type", "maturity", "tags", "summary",
              "why_useful", "good_for"} :
        (f \in DOMAIN r <=> f \in DOMAIN q) /\ (f \in DOMAIN r => PyEq(r[f], q[f]))

\* the records of a snapshot that carry the id
Carrying(resources, id) ==
    {k \in 1..Len(resources) : HasStrId(resources[k]) /\ resources[k]["id"].v = id}

\* the first of them
FirstCarrying(resources, id) ==
    resources[CHOOSE k \in Carrying(resources, id) :
                 \A h \in Carrying(resources, id) : k <= h]

\* C10 as worded: every id only in current is in new_resources, every id only
\* in previous is in removed_resources, an id in both whose records agree on
\* the comparison fields is in none of the three lists. Violated: a record
\* whose id is the empty string is left out of every list.
C10_DiffComplementary ==
    dpc = "done" =>
        /\ \A id \in IdsPresent(current_resources) \ IdsPresent(previous_resources) :
               Appears(id, new_resources)
        /\ \A id \in IdsPresent(previous_resources) \ IdsPresent(current_resources) :
               Appears(id, removed_resources)
        /\ \A id \in IdsPresent(current_resources) \cap IdsPresent(previous_resources) :
               (\A j \in Carrying(current_resources, id),
                   k \in Carrying(previous_resources, id) :
                     SameComparisonFields(current_resources[j], previous_resources[k]))
               => InNoList(id)

\* C10 as amended: every non-empty id only in current is in new_resources (and
\* in neither other list), every non-empty id only in previous is in
\* removed_resources (and in neither other list), and an id in both whose first
\* records in the two snapshots agree on the comparison fields is in none of
\* the three lists.
C10_DiffComplementaryNonEmptyIds ==
    dpc = "done" =>
        /\ \A id \in (IdsPresent(current_resources) \ IdsPresent(previous_resources)) \ {""} :
               /\ Appears(id, new_resources)
               /\ ~Appears(id, removed_resources) /\ ~Appears(id, modified_resources)
        /\ \A id \in (IdsPresent(previous_resources) \ IdsPresent(current_resources)) \ {""} :
               /\ Appears(id, removed_resources)
               /\ ~Appears(id, new_resources) /\ ~Appears(id, modified_resources)
        /\ \A id \in IdsPresent(current_resources) \cap IdsPresent(previous_resources) :
               SameComparisonFields(FirstCarrying(current_resources, id),
                                    FirstCarrying(previous_resources, id))
               => InNoList(id)

\* one id added, and one kept whose record changed outside the comparison fields
C10_Witness ==
    /\ dpc = "done"
    /\ Len(new_resources) = 1 /\ removed_resources = <<>> /\ modified_resources = <<>>
    /\ \E id \in IdsPresent(current_resources) \cap IdsPresent(previous_resources) :
           /\ id # ""
           /\ FirstCarrying(current_resources, id) # FirstCarrying(previous_resources, id)

\* the entries of modified_resources that are the record r
EntriesOf(r) == {k \in 1..Len(modified_resources) : modified_resources[k] = r}

\* C11 as worded: a record of the current snapshot is in modified_resources
\* exactly when its id is in both snapshots and it differs from a record of
\* that id in the previous snapshot in some comparison field. Violated: a
\* record whose id is the empty string is never compared.
C11_ModifiedIffComparisonFieldDiffers ==
    dpc = "done" =>
        \A j \in 1..Len(current_resources) :
            HasStrId(current_resources[j]) =>
                (EntriesOf(current_resources[j]) # {}
                 <=> \E k \in Carrying(previous_resources, current_resources[j]["id"].v) :
                        ~SameComparisonFields(current_resources[j], previous_resources[k]))

\* C11 as amended: modified_resources holds, once each, the first current
\* record of every non-empty id that is in both snapshots and whose first
\* current and first previous records differ in a comparison field, and
\* nothing else; a change outside the comparison fields gives no entry.
C11_ModifiedIffFirstRecordsDiffer ==
    dpc = "done" =>
        /\ \A k \in 1..Len(modified_resources) :
               LET m == modified_resources[k] IN
               /\ HasStrId(m) /\ m["id"].v # ""
               /\ m["id"].v \in IdsPresent(current_resources) \cap IdsPresent(previous_resources)
               /\ m = FirstCarrying(current_resources, m["id"].v)
               /\ ~SameComparisonFields(m, FirstCarrying(previous_resources, m["id"].v))
               /\ Cardinality(EntriesOf(m)) = 1
        /\ \A id \in (IdsPresent(current_resources) \cap IdsPresent(previous_resources)) \ {""} :
               ~SameComparisonFields(FirstCarrying(current_resources, id),
                                     FirstCarrying(previous_resources, id))
               => EntriesOf(FirstCarrying(current_resources, id)) # {}

\* one kept id was modified in a comparison field, another only in its star count
C11_Witness ==
    /\ dpc = "done"
    /\ Len(modified_resources) = 1
    /\ \E id \in IdsPresent(current_resources) \cap IdsPresent(previous_resources) :
           /\ id # ""
           /\ ~Appears(id, modified_resources)
           /\ ~PyEq(Get(FirstCarrying(current_resources, id), "github_stars"),
                    Get(FirstCarrying(previous_resources, id), "github_stars"))

\* `list` can be had from `collection` by dropping records, order kept
RECURSIVE IsSubsequence(_, _)
IsSubsequence(list, collection) ==
    IF list = <<>> THEN TRUE
    ELSE IF collection = <<>> THEN FALSE
    ELSE IF Head(list) = Head(collection)
         THEN IsSubsequence(Tail(list), Tail(collection))
         ELSE IsSubsequence(list, Tail(collection))

\* C12: new_resources and modified_resources list their records in the order
\* of the current collection, removed_resources in the order of the previous
\* collection. Violated: the modified records come in the iteration order of
\* a set of ids, which is not the collection order.
C12_OutputsInCollectionOrder ==
    dpc = "done" =>
        /\ IsSubsequence(new_resources, current_resources)
        /\ IsSubsequence(modified_resources, current_resources)
        /\ IsSubsequence(removed_resources, previous_resources)

\* one id removed
C10_WitnessRemoved ==
    /\ dpc = "done"
    /\ new_resources = <<>> /\ Len(removed_resources) = 1

----------------------------------------------------------------------------
(* generate.py: the composite sort key, lines 25-26 and 86-126 *)

MATURITY_RANK ==
    [m \in {"Battle-tested", "Adopted", "Emerging", "Experimental"} |->
        CASE m = "Battle-tested" -> 0
          [] m = "Adopted" -> 1
          [] m = "Emerging" -> 2
          [] m = "Experimental" -> 3]

GOOD_FOR_PRIORITY == <<"production", "mlops", "testing", "evaluation", "prototyping">>

\* MATURITY_RANK.get(..., 99)
UnrankedMaturity == 99

\* datetime(1900, 1, 1)
VeryOldDate == <<1900, 1, 1>>

\* datetime.strptime(s, "%Y"): four digits, year 1 or later
StrptimeYearOk(s) == Len(s) = 4 /\ AllDigits(s) /\ ToInt(s) >= 1

\* parse_date: <<year, month, day>> of the datetime returned
parse_date(date_str) ==
    IF ~Truthy(date_str) THEN VeryOldDate
    ELSE LET parts == Split(date_str.v, "-") IN
         IF StrptimeOk(date_str.v, TRUE)
         THEN <<ToInt(parts[1]), ToInt(parts[2]), ToInt(parts[3])>>
         ELSE IF StrptimeOk(date_str.v, FALSE)
         THEN <<ToInt(parts[1]), ToInt(parts[2]), 1>>
         ELSE IF StrptimeYearOk(date_str.v)
         THEN <<ToInt(date_str.v), 1, 1>>
         ELSE VeryOldDate

\* datetime.timestamp() of a midnight, counted in whole days since 1970-01-01
\* (the proleptic Gregorian day number): the timestamps of two midnights are
\* ordered as their day numbers are
Timestamp(date) ==
    LET a == (14 - date[2]) \div 12
        y == date[1] + 4800 - a
        m == date[2] + 12 * a - 3
    IN date[3] + ((153 * m + 2) \div 5) + 365 * y + (y \div 4) - (y \div 100)
       + (y \div 400) - 32045 - 2440588

\* last_updated or published or added
FirstTruthy(x, y, z) == IF Truthy(x) THEN x ELSE IF Truthy(y) THEN y ELSE z

DateChosen(resource) ==
    FirstTruthy(Get(resource, "last_updated"), Get(resource, "published"),
                Get(resource, "added"))

\* strptime is given something that is not a string: TypeError, which
\* parse_date does not catch
SortKeyRaises(resource) ==
    Truthy(DateChosen(resource)) /\ DateChosen(resource).t # "str"

\* min([GOOD_FOR_PRIORITY.index(g) ...] or [len(GOOD_FOR_PRIORITY)]), 0-based
GoodForKey(good_for) ==
    LET hits == {k \in 1..Len(GOOD_FOR_PRIORITY) :
                    \E j \in 1..Len(good_for) : good_for[j] = GOOD_FOR_PRIORITY[k]}
    IN IF hits = {} THEN Len(GOOD_FOR_PRIORITY) ELSE First(hits) - 1

\* get_sort_key: (maturity_rank, date_key, github_stars, good_for_key, title)
get_sort_key(resource) ==
    LET maturity == Get(resource, "maturity")
        stars == Get(resource, "github_stars")
        good_for == Get(resource, "good_for")
        title == Get(resource, "title")
    IN <<IF maturity.t = "str" /\ maturity.v \in DOMAIN MATURITY_RANK
            THEN MATURITY_RANK[maturity.v] ELSE UnrankedMaturity,
         0 - Timestamp(parse_date(DateChosen(resource))),
         0 - (IF Truthy(stars) THEN stars.v ELSE 0),
         GoodForKey(IF good_for.t = "list" THEN good_for.v ELSE <<>>),
         IF title.t = "str" THEN Lower(title.v) ELSE <<>>>>

\* ord() of the characters titles are written in
Ord(c) ==
    IF c = " " THEN 32
    ELSE IF IsDigit(c) THEN 48 + DigitVal(c)
    ELSE IF IsUpper(c) THEN 64 + (CHOOSE k \in 1..Len(UpperChars) : UpperChars[k] = c)
    ELSE 96 + (CHOOSE k \in 1..Len(LowerChars) : LowerChars[k] = c)

\* str < str
RECURSIVE StrLess(_, _)
StrLess(a, b) ==
    IF b = <<>> THEN FALSE
    ELSE IF a = <<>> THEN TRUE
    ELSE IF a[1] = b[1] THEN StrLess(Tail(a), Tail(b))
    ELSE Ord(a[1]) < Ord(b[1])

\* mutant: the star count is compared first
KeyLess_stars_first(x, y) ==
    \E k \in 1..5 :
        LET at == <<3, 1, 2, 4, 5>> IN
        /\ \A h \in 1..(k - 1) : x[at[h]] = y[at[h]]
        /\ IF k = 5 THEN StrLess(x[5], y[5]) ELSE x[at[k]] < y[at[k]]

\* tuple < tuple, on sort keys
KeyLess(x, y) ==
    \E k \in 1..5 :
        /\ \A h \in 1..(k - 1) : x[h] = y[h]
        /\ IF k = 5 THEN StrLess(x[k], y[k]) ELSE x[k] < y[k]

----------------------------------------------------------------------------
(* generate.py: list.sort(key=get_sort_key) and the two groupings *)

\* mutant: a record goes before the records of equal key already placed
InsertByKey_before_equals(sorted, r) ==
    LET p == Cardinality({k \in 1..Len(sorted) :
                             KeyLess(get_sort_key(sorted[k]), get_sort_key(r))})
    IN SubSeq(sorted, 1, p) \o <<r>> \o SubSeq(sorted, p + 1, Len(sorted))

\* r is put after every record whose key is not greater than its own
InsertByKey(sorted, r) ==
    LET p == Cardinality({k \in 1..Len(sorted) :
                             ~KeyLess(get_sort_key(r), get_sort_key(sorted[k]))})
    IN SubSeq(sorted, 1, p) \o <<r>> \o SubSeq(sorted, p + 1, Len(sorted))

\* list.sort(key=get_sort_key): the stable sort, as the insertion of the
\* records in list order
RECURSIVE SortByKey(_)
SortByKey(list) ==
    IF list = <<>> THEN <<>>
    ELSE InsertByKey(SortByKey(SubSeq(list, 1, Len(list) - 1)), list[Len(list)])

\* a dict of lists is the sequence of its [key, val] items, in insertion order
Keys(d) == {d[k].key : k \in 1..Len(d)}
At(d, key) == d[CHOOSE k \in 1..Len(d) : d[k].key = key].val

\* defaultdict(list): d[key].append(r)
AppendAt(d, key, r) ==
    IF key \in Keys(d)
    THEN [k \in 1..Len(d) |->
             IF d[k].key = key THEN [key |-> key, val |-> Append(d[k].val, r)] ELSE d[k]]
    ELSE Append(d, [key |-> key, val |-> <<r>>])

\* for ... in d: d[...].sort(key=get_sort_key)
SortEach(d) == [k \in 1..Len(d) |-> [key |-> d[k].key, val |-> SortByKey(d[k].val)]]

\* lines 136-138: resource.get("domains", resource.get("domain", ["Other"])),
\* a string taken as a list of one
DomainsOf(resource) ==
    LET domains == IF "domains" \in DOMAIN resource THEN resource["domains"]
                   ELSE IF "domain" \in DOMAIN resource THEN resource["domain"]
                   ELSE L(<<"Other">>)
    IN IF domains.t = "str" THEN <<domains.v>> ELSE domains.v

\* mutant: the record goes to its first domain only
FanOut_first_only(d, resource, domains) ==
    IF domains = <<>> THEN d ELSE AppendAt(d, domains[1], resource)

\* lines 141-142: the record is appended to the group of each of its domains
RECURSIVE FanOut(_, _, _)
FanOut(d, resource, domains) ==
    IF domains = <<>> THEN d
    ELSE FanOut(AppendAt(d, domains[1], resource), resource, Tail(domains))

\* lines 135-142
RECURSIVE GroupAll(_, _)
GroupAll(d, resources) ==
    IF resources = <<>> THEN d
    ELSE GroupAll(FanOut(d, resources[1], DomainsOf(resources[1])), Tail(resources))

group_resources_by_domain(resources) == SortEach(GroupAll(<<>>, resources))

----------------------------------------------------------------------------
(* generate.py: group_by_subcategory, lines 199-296 *)

Rule(tags, label) == [tags |-> tags, label |-> label]

\* the if/elif chain of each domain branch, in order
SubcategoryRules ==
    [domain \in {"AI-Engineering", "Platform-Engineering", "Data-Engineering",
                 "Security", "Developer-Tools"} |->
        CASE domain = "AI-Engineering" ->
               <<Rule({"agents", "mcp", "integration", "protocol"},
                      "Agent Systems & Integration"),
                 Rule({"rag", "graph-rag", "knowledge-graphs", "retrieval"},
                      "RAG & Knowledge Systems"),
                 Rule({"evaluation", "testing", "prompts"}, "Testing & Evaluation"),
                 Rule({"training", "frameworks"}, "Training & Frameworks"),
                 Rule({"architecture", "case-studies", "patterns"},
                      "Architecture & Best Practices")>>
          [] domain = "Platform-Engineering" ->
               <<Rule({"performance", "monitoring", "observability"},
                      "Performance & Observability"),
                 Rule({"infrastructure", "self-hosting", "catalog", "services"},
                      "Infrastructure & Services"),
                 Rule({"containers", "docker", "logs"}, "Container Platforms"),
                 Rule({"documentation", "diagrams", "architecture"},
                      "Documentation & Architecture")>>
          [] domain = "Data-Engineering" ->
               <<Rule({"datasets", "catalog", "discovery", "public-data"},
                      "Data Discovery & Catalogs"),
                 Rule({"sql", "database", "nl2sql"}, "Query & Database Tools"),
                 Rule({"pipelines", "etl", "processing"}, "Pipelines & Processing")>>
          [] domain = "Security" ->
               <<Rule({"vulnerability-scanning", "containers", "supply-chain"},
                      "Vulnerability Management"),
                 Rule({"kubernetes", "admission-controller", "configuration"},
                      "Infrastructure Security"),
                 Rule({"secrets", "auth", "compliance"}, "Access & Compliance")>>
          [] domain = "Developer-Tools" ->
               <<Rule({"code-formatting", "linting", "git-hooks", "pre-commit"},
                      "Code Quality & Standards"),
                 Rule({"browser-automation", "chrome-extension"}, "Browser & Web Tools"),
                 Rule({"creative-tools"}, "Creative & Specialized Tools")>>]

\* the else branch of each domain
FallbackLabel ==
    [domain \in DOMAIN SubcategoryRules |->
        CASE domain = "AI-Engineering" -> "Core AI Tools"
          [] domain = "Platform-Engineering" -> "Platform Tools"
          [] domain = "Data-Engineering" -> "Data Infrastructure"
          [] domain = "Security" -> "Security Tools"
          [] domain = "Developer-Tools" -> "Development Utilities"]

\* the final else: a domain with no branch of its own
GenericLabel == "Tools & Utilities"

\* tag.lower(), on the tags records are written with here: the ones with an
\* upper-case letter are listed, the others have none
LowerTag(tag) ==
    CASE tag = "RAG" -> "rag"
      [] tag = "Agents" -> "agents"
      [] tag = "Secrets" -> "secrets"
      [] OTHER -> tag

\* line 206: [tag.lower() for tag in resource.get("tags", [])]
LoweredTags(resource) ==
    IF "tags" \in DOMAIN resource
    THEN {LowerTag(resource["tags"].v[k]) : k \in 1..Len(resource["tags"].v)}
    ELSE {}

\* mutant: the last matching rule of the chain decides
SubcategoryOf_last_match(resource, domain) ==
    IF domain \notin DOMAIN SubcategoryRules THEN GenericLabel
    ELSE LET rules == SubcategoryRules[domain]
             hits == {k \in 1..Len(rules) : rules[k].tags \cap LoweredTags(resource) # {}}
         IN IF hits = {} THEN FallbackLabel[domain]
            ELSE rules[CHOOSE k \in hits : \A h \in hits : h <= k].label

\* lines 208-290: the label of the first branch that holds
SubcategoryOf(resource, domain) ==
    IF domain \notin DOMAIN SubcategoryRules THEN GenericLabel
    ELSE LET rules == SubcategoryRules[domain]
             hits == {k \in 1..Len(rules) : rules[k].tags \cap LoweredTags(resource) # {}}
         IN IF hits = {} THEN FallbackLabel[domain] ELSE rules[First(hits)].label

\* lines 205-290
RECURSIVE Classify(_, _, _)
Classify(d, resources, domain) ==
    IF resources = <<>> THEN d
    ELSE Classify(AppendAt(d, SubcategoryOf(resources[1], domain), resources[1]),
                  Tail(resources), domain)

group_by_subcategory(resources, domain) == SortEach(Classify(<<>>, resources, domain))

----------------------------------------------------------------------------
(* generate.py: main(), lines 556-593, as far as the groupings go *)

\* line 468: grouped = group_resources_by_domain(resources); the sort calls
\* get_sort_key on every record of every group, and main's `except Exception`
\* (lines 589-591) ends the run when that raises
GroupByDomain ==
    /\ gpc = "group"
    /\ IF \E k \in 1..Len(gen_resources) :
              DomainsOf(gen_resources[k]) # <<>> /\ SortKeyRaises(gen_resources[k])
       THEN gpc' = "crashed" /\ grouped' = grouped
       ELSE gpc' = "sections" /\ grouped' = group_resources_by_domain(gen_resources)
    /\ UNCHANGED <<gen_resources, sections>>
    /\ UNCHANGED notgenerator

\* lines 504-505 and 177, one iteration of `for domain, domain_resources in
\* grouped.items()`: subcategories = group_by_subcategory(resources, domain)
DomainSection ==
    /\ gpc = "sections"
    /\ Len(sections) < Len(grouped)
    /\ LET item == grouped[Len(sections) + 1] IN
         sections' = Append(sections,
                            [key |-> item.key,
                             val |-> group_by_subcategory(item.val, item.key)])
    /\ UNCHANGED <<gen_resources, gpc, grouped>>
    /\ UNCHANGED notgenerator

\* the loop at line 504 is over
GenerateDone ==
    /\ gpc = "sections"
    /\ Len(sections) = Len(grouped)
    /\ gpc' = "done"
    /\ UNCHANGED <<gen_resources, grouped, sections>>
    /\ UNCHANGED notgenerator

NextGen == GroupByDomain \/ DomainSection \/ GenerateDone

\* longest collection the generator is given
MaxGenRecords == 3

T_ab == <<"a", "b">>
T_AB == <<"A", "B">>
T_Ba == <<"B", "a">>
D_year == <<"2", "0", "2", "4">>
D_ancient == <<"1", "8", "5", "0", "-", "0", "1", "-", "0", "1">>

\* what the generator reads of a resource
GenRecord(title) ==
    [title |-> Chars(title), maturity |-> S("Emerging"),
     last_updated |-> Chars(D_month), published |-> Chars(D_month),
     github_stars |-> I(9000), good_for |-> L(<<"research">>),
     domain |-> L(<<"Security">>), tags |-> L(<<"cli">>)]

\* Battle-tested, fewer stars
G_tested ==
    With(With(With(GenRecord(T_ab), "maturity", S("Battle-tested")),
              "github_stars", I(500)), "good_for", L(<<"production">>))

\* two domains, tags of two rules, no star count, a later date
G_multi ==
    Without(With(With(With(GenRecord(T_ab), "domain", L(<<"Security", "AI-Engineering">>)),
                      "tags", L(<<"RAG", "agents">>)), "last_updated", Chars(D_full)),
            {"github_stars"})

\* the older `domains` key, a maturity outside the ranks, a date that does not parse
G_legacy ==
    With(With(With(With(Without(GenRecord(T_Ba), {"domain"}),
                        "domains", L(<<"AI-Engineering">>)),
                   "tags", L(<<"rag">>)), "maturity", S("Stable")),
         "last_updated", Chars(D_slash))

\* the domain a string, no date at all, tags of the second and third Security rule
G_plain ==
    With(With(With(Without(GenRecord(T_ab), {"last_updated", "published"}),
                   "domain", S("Security")),
              "tags", L(<<"Secrets", "kubernetes">>)),
         "good_for", L(<<"mlops", "production">>))

\* no domain key; last_updated empty, so `added` is the date
G_added ==
    With(With(Without(GenRecord(T_Ba), {"domain", "published"}),
              "last_updated", Chars(<<>>)), "added", Chars(D_full))

GenPool ==
    {GenRecord(T_Ba), G_tested, With(G_tested, "title", Chars(T_AB)),
     G_multi, G_legacy, G_plain, G_added,
     With(GenRecord(T_ab), "last_updated", DateObj),
     With(GenRecord(T_ab), "domain", L(<<>>)),
     With(With(GenRecord(T_ab), "domain", L(<<"Security", "Productivity">>)),
          "domains", L(<<"AI-Engineering">>)),
     With(With(GenRecord(T_ab), "domain", L(<<"LLMOps-RAG">>)),
          "last_updated", Chars(D_year)),
     With(GenRecord(T_ab), "last_updated", Chars(D_ancient)),
     With(GenRecord(T_Ba), "domain", L(<<"Security", "Security">>)),
     With(GenRecord(T_ab), "domain", L(<<"Security", "Productivity">>))}

InitGen ==
    /\ gen_resources \in SeqsUpTo(GenPool, MaxGenRecords)
    /\ gpc = "group"
    /\ grouped = <<>>
    /\ sections = <<>>
    /\ ValidatorOff
    /\ DifferencerOff
    /\ StarsOff
    /\ LinksOff

SpecGen == InitGen /\ [][NextGen]_vars

----------------------------------------------------------------------------
(* The ranking and the groupings, as the claims word them *)

\* every list the two groupings returned
ReturnedGroups ==
    {grouped[k].val : k \in 1..Len(grouped)}
    \cup UNION {{sections[k].val[j].val : j \in 1..Len(sections[k].val)} :
                  k \in 1..Len(sections)}

\* the components of the composite key, each as the ranking contract words it
MaturityRankOf(r) ==
    LET m == Get(r, "maturity") IN
    CASE m.t = "str" /\ m.v = "Battle-tested" -> 0
      [] m.t = "str" /\ m.v = "Adopted" -> 1
      [] m.t = "str" /\ m.v = "Emerging" -> 2
      [] m.t = "str" /\ m.v = "Experimental" -> 3
      [] OTHER -> 4

StarsOf(r) == IF "github_stars" \in DOMAIN r THEN r["github_stars"].v ELSE 0

UseCaseIndexOf(r) ==
    LET listed == IF "good_for" \in DOMAIN r THEN SeqToSet(r["good_for"].v) ELSE {}
        hits == {k \in 1..Len(GOOD_FOR_PRIORITY) : GOOD_FOR_PRIORITY[k] \in listed}
    IN IF hits = {} THEN Len(GOOD_FOR_PRIORITY) + 1
       ELSE CHOOSE k \in hits : \A h \in hits : k <= h

\* date x is later than date y, both <<year, month, day>>
Later(x, y) ==
    \/ x[1] > y[1]
    \/ x[1] = y[1] /\ x[2] > y[2]
    \/ x[1] = y[1] /\ x[2] = y[2] /\ x[3] > y[3]

DateOf(r) == parse_date(DateChosen(r))
LowerTitleOf(r) == Lower(r["title"].v)

\* r comes before q by the composite key: maturity rank, then newer, then more
\* stars, then lower use-case index, then lower-cased title
Before(r, q) ==
    \/ MaturityRankOf(r) < MaturityRankOf(q)
    \/ /\ MaturityRankOf(r) = MaturityRankOf(q)
       /\ \/ Later(DateOf(r), DateOf(q))
          \/ /\ DateOf(r) = DateOf(q)
             /\ \/ StarsOf(r) > StarsOf(q)
                \/ /\ StarsOf(r) = StarsOf(q)
                   /\ \/ UseCaseIndexOf(r) < UseCaseIndexOf(q)
                      \/ /\ UseCaseIndexOf(r) = UseCaseIndexOf(q)
                         /\ StrLess(LowerTitleOf(r), LowerTitleOf(q))

SameKey(r, q) ==
    /\ MaturityRankOf(r) = MaturityRankOf(q)
    /\ DateOf(r) = DateOf(q)
    /\ StarsOf(r) = StarsOf(q)
    /\ UseCaseIndexOf(r) = UseCaseIndexOf(q)
    /\ LowerTitleOf(r) = LowerTitleOf(q)

\* C13: in every group the two groupings return, a record is followed only by
\* records that come after it by the composite key or have the same key; so a
\* better maturity rank comes first whatever the stars, and a group of
\* pairwise distinct keys has one possible order, whatever the input order.
C13_GroupsOrderedByCompositeKey ==
    \A g \in ReturnedGroups :
        \A i \in 1..Len(g), j \in 1..Len(g) :
            /\ i < j => (Before(g[i], g[j]) \/ SameKey(g[i], g[j]))
            /\ MaturityRankOf(g[i]) < MaturityRankOf(g[j]) => i < j

\* the Emerging record with 9000 stars was given before the Battle-tested one
\* with 500, and the Security group has them the other way round
C13_Witness ==
    /\ gpc = "done"
    /\ \E i \in 1..Len(gen_resources), j \in 1..Len(gen_resources) :
           /\ i < j
           /\ gen_resources[i] = GenRecord(T_Ba)
           /\ gen_resources[j] = G_tested
    /\ \E k \in 1..Len(sections) :
           /\ sections[k].key = "Security"
           /\ \E h \in 1..Len(sections[k].val) :
                  /\ Len(sections[k].val[h].val) >= 2
                  /\ sections[k].val[h].val[1] = G_tested

\* the records that list `domain`, once per listing, in the order of the
\* collection: the group of the domain as it is before it is ranked
RECURSIVE Listings(_, _)
Listings(resources, domain) ==
    IF resources = <<>> THEN <<>>
    ELSE SelectSeq([k \in 1..Len(DomainsOf(resources[1])) |->
                       [d |-> DomainsOf(resources[1])[k], r |-> resources[1]]],
                   LAMBDA x : x.d = domain)
         \o Listings(Tail(resources), domain)

Unranked(domain) ==
    [k \in 1..Len(Listings(gen_resources, domain)) |->
        Listings(gen_resources, domain)[k].r]

\* the records of `list` whose key is that of r, in the order of list
OfKey(list, r) == SelectSeq(list, LAMBDA q : SameKey(q, r))

\* C14: ranking a group the program returned gives the same order again; the
\* records of one key stand in a domain group in the order they had in the
\* collection, and in a subcategory group in the order they had in the ranked
\* domain group it was made from.
C14_RankingIdempotentAndStable ==
    /\ \A g \in ReturnedGroups : SortByKey(g) = g
    /\ \A k \in 1..Len(grouped) :
           \A i \in 1..Len(grouped[k].val) :
               OfKey(grouped[k].val, grouped[k].val[i])
                   = OfKey(Unranked(grouped[k].key), grouped[k].val[i])
    /\ \A k \in 1..Len(sections) :
           \A j \in 1..Len(sections[k].val) :
               IsSubsequence(sections[k].val[j].val, grouped[k].val)

\* two records of one key and different titles went into one group, the
\* upper-case title first, and came out in that order
C14_Witness ==
    /\ gpc = "done"
    /\ \E k \in 1..Len(sections) :
           \E j \in 1..Len(sections[k].val) :
               LET g == sections[k].val[j].val IN
               /\ Len(g) >= 2
               /\ g[1] = With(G_tested, "title", Chars(T_AB))
               /\ g[2] = G_tested

\* the labels of the section under which the record r stands
LabelsOf(section, r) ==
    {section.val[j].key :
        j \in {h \in 1..Len(section.val) :
                  \E i \in 1..Len(section.val[h].val) : section.val[h].val[i] = r}}

\* rule k of the domain has a tag that is a lower-cased tag of r
RuleMatches(domain, k, r) ==
    \E tag \in SubcategoryRules[domain][k].tags : tag \in LoweredTags(r)

\* the label the classification contract gives r in the domain
LabelAsWorded(domain, r) ==
    IF domain \notin DOMAIN SubcategoryRules THEN GenericLabel
    ELSE IF \A k \in 1..Len(SubcategoryRules[domain]) : ~RuleMatches(domain, k, r)
    THEN FallbackLabel[domain]
    ELSE SubcategoryRules[domain][
             CHOOSE k \in 1..Len(SubcategoryRules[domain]) :
                 /\ RuleMatches(domain, k, r)
                 /\ \A h \in 1..(k - 1) : ~RuleMatches(domain, h, r)].label

\* C15: every record of a domain group stands under exactly one label of the
\* domain's section, the label of the first rule of the domain that has one of
\* its lower-cased tags, or the fallback label when no rule has; two records
\* of the group with the same tag set stand under the same label.
C15_FirstMatchingRuleLabels ==
    \A k \in 1..Len(sections) :
        \A i \in 1..Len(grouped[k].val), j \in 1..Len(grouped[k].val) :
            LET r == grouped[k].val[i]
                q == grouped[k].val[j]
            IN /\ LabelsOf(sections[k], r) = {LabelAsWorded(sections[k].key, r)}
               /\ LoweredTags(r) = LoweredTags(q)
                      => LabelsOf(sections[k], r) = LabelsOf(sections[k], q)

\* a record with tags of the first two AI-Engineering rules stands under the
\* first rule's label, one with tags of the second and third Security rule
\* under the second's, next to a record under the Security fallback label
C15_Witness ==
    /\ gpc = "done"
    /\ \E k \in 1..Len(sections) :
           /\ sections[k].key = "AI-Engineering"
           /\ LabelsOf(sections[k], G_multi) = {"Agent Systems & Integration"}
    /\ \E k \in 1..Len(sections) :
           /\ sections[k].key = "Security"
           /\ LabelsOf(sections[k], G_plain) = {"Infrastructure Security"}
           /\ LabelsOf(sections[k], G_multi) = {"Security Tools"}

\* the domains a record lists: the entries of its domain list, which it
\* carries under the key `domains` or else under `domain`; a bare string is a
\* list of one
ListedDomains(r) ==
    LET listed == IF "domains" \in DOMAIN r THEN r["domains"]
                  ELSE IF "domain" \in DOMAIN r THEN r["domain"]
                  ELSE L(<<>>)
    IN IF listed.t = "list" THEN SeqToSet(listed.v) ELSE {listed.v}

\* the domains in whose group r was placed
GroupsHolding(r) ==
    {grouped[k].key :
        k \in {h \in 1..Len(grouped) :
                  \E i \in 1..Len(grouped[h].val) : grouped[h].val[i] = r}}

\* C16: a record that lists more than one domain is in the group of each
\* domain it lists and in the group of no other domain.
C16_MultiDomainFanOut ==
    gpc \in {"sections", "done"} =>
        \A i \in 1..Len(gen_resources) :
            Cardinality(ListedDomains(gen_resources[i])) > 1
                => GroupsHolding(gen_resources[i]) = ListedDomains(gen_resources[i])

\* a record of two domains is in both groups, a record of one of them in its own only
C16_Witness ==
    /\ gpc = "done"
    /\ GroupsHolding(G_multi) = {"Security", "AI-Engineering"}
    /\ GroupsHolding(G_tested) = {"Security"}
    /\ \E i \in 1..Len(gen_resources) : gen_resources[i] = G_multi
    /\ \E i \in 1..Len(gen_resources) : gen_resources[i] = G_tested

----------------------------------------------------------------------------
(* validate.py run again on the same store *)

\* most runs after the first
MaxReruns == 2

\* mutant: the seen sets are shared by every validator of the process
ResourceValidator_shared_sets ==
    [errors |-> <<>>, warnings |-> <<>>, seen_ids |-> seen_ids, seen_urls |-> seen_urls]

\* ResourceValidator.__init__, lines 79-83
ResourceValidator_init ==
    [errors |-> <<>>, warnings |-> <<>>, seen_ids |-> {}, seen_urls |-> {}]

\* main() is called again: it loads the store anew and makes a validator of
\* its own (line 375); what the finished run ended with is kept in runs
Rerun ==
    /\ pc = "done"
    /\ Len(runs) < MaxReruns
    /\ runs' = Append(runs, [errors |-> errors, warnings |-> warnings,
                             raised |-> raised, rc |-> rc])
    /\ errors' = ResourceValidator_init.errors
    /\ warnings' = ResourceValidator_init.warnings
    /\ seen_ids' = ResourceValidator_init.seen_ids
    /\ seen_urls' = ResourceValidator_init.seen_urls
    /\ pc' = "load"
    /\ idx' = 0
    /\ raised' = "none"
    /\ reported' = FALSE
    /\ rc' = -1
    /\ UNCHANGED doc
    /\ UNCHANGED notvalidator

NextRerun == Next \/ Rerun

\* records with a repeated id, a repeated url, warnings, and each kind of failure
RerunPool ==
    {BaseA, Base("a", U_caps), Base("b", U_other), Base("b", U_mid)}
    \cup WarningRecords \cup RelatedRecords
    \cup {With(BaseA, "published", DateObj), With(BaseA, "maturity", S("Stable")),
          Without(BaseA, {"tags"})}

InitRerun ==
    /\ doc \in {[shape |-> "ok", resources |-> rs] : rs \in SeqsUpTo(RerunPool, MaxRecords)}
              \cup {[shape |-> "missing", resources |-> <<>>]}
    /\ ValidatorIdle
    /\ DifferencerOff
    /\ GeneratorOff
    /\ StarsOff
    /\ LinksOff

SpecRerun == InitRerun /\ [][NextRerun]_vars

\* C17: every run of the validator on one store ends with the errors, the
\* warnings and the status the runs before it ended with.
C17_RevalidationIdempotent ==
    pc = "done" =>
        \A k \in 1..Len(runs) :
            /\ runs[k].errors = errors
            /\ runs[k].warnings = warnings
            /\ runs[k].rc = rc

\* the third run on a store of two records, one with a warning, that passes the
\* uniqueness rule: the first two runs ended with that warning and no error
C17_Witness ==
    /\ pc = "done"
    /\ Len(runs) = 2
    /\ Len(doc.resources) = 2
    /\ errors = <<>>
    /\ warnings # <<>>
    /\ seen_ids # {}

----------------------------------------------------------------------------
(* update_stars.py: update_github_stars, lines 37-104 *)

\* str.strip("/")
RECURSIVE LStripSlash(_)
LStripSlash(s) == IF s # <<>> /\ s[1] = "/" THEN LStripSlash(Tail(s)) ELSE s
StripSlash(s) == LStripSlash(RStripSlash(s))

\* line 45: the paths that make the loop pass a GitHub url by
SkippedPaths ==
    {<<"/", "t", "r", "e", "e", "/">>, <<"/", "b", "l", "o", "b", "/">>,
     <<"/", "i", "s", "s", "u", "e", "s">>, <<"/", "w", "i", "k", "i">>}

\* line 45, negated: the record is a repository to refresh
IsRepository(url) ==
    Contains(url, GithubCom) /\ \A path \in SkippedPaths : ~Contains(url, path)

\* line 52
OwnerAndRepo(url) == Split(StripSlash(RemoveAll(url, GithubPrefix)), "/")

\* what one iteration got: no request (the record was passed by, or its url
\* has no owner/repo), an HTTP response, or a requests.RequestException
NoRequest(why) == [kind |-> why, status |-> 0, count |-> 0]
Http(status, count) == [kind |-> "http", status |-> status, count |-> count]
NetworkError == [kind |-> "neterror", status |-> 0, count |-> 0]

\* resource.get('github_stars', 0)
OldStars(resource) ==
    IF "github_stars" \in DOMAIN resource THEN resource["github_stars"].v ELSE 0

\* mutant: only a growing count is taken over
StarsChanged_only_growth(response, resource) ==
    response.kind = "http" /\ response.status = 200 /\ response.count > OldStars(resource)

\* lines 63-68: status 200 and new_stars != old_stars
StarsChanged(response, resource) ==
    response.kind = "http" /\ response.status = 200 /\ response.count # OldStars(resource)

\* lines 40-90, one iteration of the loop, for the response the API gives
RefreshRecord ==
    /\ spc = "loop"
    /\ Len(responses) < Len(star_data)
    /\ LET resource == star_data[Len(responses) + 1]
           url == IF "url" \in DOMAIN resource THEN resource["url"].v ELSE <<>>
       IN IF ~IsRepository(url)
          THEN /\ responses' = Append(responses, NoRequest("skipped"))
               /\ UNCHANGED <<star_data, updated_count, total_repos>>
          ELSE IF Len(OwnerAndRepo(url)) < 2
          THEN /\ responses' = Append(responses, NoRequest("invalid"))
               /\ total_repos' = total_repos + 1
               /\ UNCHANGED <<star_data, updated_count>>
          ELSE \E response \in {Http(st, 0) : st \in {404, 403, 500}}
                                \cup {Http(200, n) : n \in 0..2} \cup {NetworkError} :
                  /\ responses' = Append(responses, response)
                  /\ total_repos' = total_repos + 1
                  /\ IF StarsChanged(response, resource)
                     THEN /\ star_data' = [star_data EXCEPT ![Len(responses) + 1] =
                                              With(resource, "github_stars", I(response.count))]
                          /\ updated_count' = updated_count + 1
                     ELSE UNCHANGED <<star_data, updated_count>>
    /\ UNCHANGED <<star_store, spc>>
    /\ UNCHANGED notstars

\* lines 92-104: the store is written when a count was updated
SaveStore ==
    /\ spc = "loop"
    /\ Len(responses) = Len(star_data)
    /\ IF updated_count > 0
       THEN star_store' = star_data /\ spc' = "saved"
       ELSE star_store' = star_store /\ spc' = "unchanged"
    /\ UNCHANGED <<star_data, responses, updated_count, total_repos>>
    /\ UNCHANGED notstars

NextStars == RefreshRecord \/ SaveStore

\* longest store the refresh is given
MaxStarRecords == 2

\* what the refresh reads of a resource
StarPool ==
    LET tree == U_gh \o <<"/", "t", "r", "e", "e", "/", "x">> IN
    {[id |-> S("a"), url |-> Chars(url)] : url \in {U_gh, U_ghbad, U_base, tree}}
    \cup {[id |-> S("b"), url |-> Chars(url), github_stars |-> I(1)] : url \in {U_gh, tree}}
    \cup {[id |-> S("c"), url |-> Chars(U_gh), github_stars |-> I(0)], [id |-> S("d")]}

InitStars ==
    /\ star_store \in SeqsUpTo(StarPool, MaxStarRecords)
    /\ star_data = star_store
    /\ spc = "loop"
    /\ responses = <<>>
    /\ updated_count = 0
    /\ total_repos = 0
    /\ ValidatorOff
    /\ DifferencerOff
    /\ GeneratorOff
    /\ LinksOff

SpecStars == InitStars /\ [][NextStars]_vars

\* iteration k fetched a count, and it is not the count the store has for the
\* record (none counts as 0)
FetchedDiffers(k) ==
    /\ responses[k].kind = "http" /\ responses[k].status = 200
    /\ responses[k].count # (IF "github_stars" \in DOMAIN star_store[k]
                                THEN star_store[k]["github_stars"].v ELSE 0)

\* C18: while the batch runs, a record gone through has the fetched count in
\* place of its own, and is counted, exactly when a count was fetched and
\* differs from the stored one; any other record is as it is in the store.
\* The batch ends only after every record was gone through, whatever the
\* fetches gave, and the store was written only if a record was updated.
C18_StarRefresh ==
    /\ spc = "loop" =>
           /\ \A k \in 1..Len(star_data) :
                  star_data[k] =
                      IF k <= Len(responses) /\ FetchedDiffers(k)
                      THEN [f \in DOMAIN star_store[k] \cup {"github_stars"} |->
                               IF f = "github_stars" THEN I(responses[k].count)
                               ELSE star_store[k][f]]
                      ELSE star_store[k]
           /\ updated_count = Cardinality({k \in 1..Len(responses) : FetchedDiffers(k)})
    /\ spc \in {"saved", "unchanged"} => Len(responses) = Len(star_data)
    /\ spc = "saved" => updated_count > 0 /\ star_store = star_data
    /\ spc = "unchanged" => updated_count = 0 /\ star_store = star_data

\* the fetch for the first record failed, the second record got a new count,
\* and the store was written with it
C18_Witness ==
    /\ spc = "saved"
    /\ Len(responses) = 2
    /\ responses[1].kind = "neterror" \/ responses[1].status \in {403, 404, 500}
    /\ responses[2] = Http(200, 2)
    /\ "github_stars" \notin DOMAIN star_store[1]
    /\ star_store[2]["github_stars"] = I(2)
    /\ updated_count = 1

----------------------------------------------------------------------------
(* check_links.py: check_url, lines 16-84, check_all_links and main *)

\* check_url's default max_retries
max_retries == 2

\* what one attempt met: the status of the HEAD request, or 0 when it raised,
\* and for a 405 the same of the GET request that follows (-1: no GET made)
Met(head, get) == [head |-> head, get |-> get]

Outcomes ==
    {Met(200, -1), Met(404, -1), Met(0, -1), Met(405, 200), Met(405, 0)}

\* the request of the attempt that answered last raised
Failed(met) == met.head = 0 \/ met.get = 0

\* the status code the attempt left in the result, given the one before
StatusAfter(met, before) ==
    IF met.head = 0 THEN before
    ELSE IF met.head = 405 /\ met.get > 0 THEN met.get
    ELSE met.head

\* mutant: a 4xx status passes for accessible
Accessible_below_500(met) == ~Failed(met) /\ StatusAfter(met, 0) < 500

\* lines 60-63: the attempt got a status below 400
Accessible(met) == ~Failed(met) /\ StatusAfter(met, 0) < 400

\* lines 87-108: the store is missing, does not parse or has no resources key
LoadLinks ==
    /\ lpc = "load"
    /\ IF link_doc.shape = "ok"
       THEN lpc' = "loop" /\ link_rc' = link_rc
       ELSE lpc' = "done" /\ link_rc' = 1
    /\ UNCHANGED <<link_doc, link_log, attempts, result, broken_links,
                   accessible_count, total_checked>>
    /\ UNCHANGED notlinks

\* lines 114-127 and 23-28: the next record; one without a url is passed by
StartCheck ==
    /\ lpc = "loop"
    /\ Len(link_log) < Len(link_doc.resources)
    /\ IF Truthy(Get(link_doc.resources[Len(link_log) + 1], "url"))
       THEN /\ lpc' = "checking"
            /\ total_checked' = total_checked + 1
            /\ result' = [accessible |-> FALSE, status_code |-> 0, error |-> "None"]
            /\ UNCHANGED link_log
       ELSE /\ link_log' = Append(link_log, <<>>)
            /\ UNCHANGED <<lpc, total_checked, result>>
    /\ UNCHANGED <<link_doc, attempts, broken_links, accessible_count, link_rc>>
    /\ UNCHANGED notlinks

\* lines 30-82: one attempt of check_url
Attempt ==
    /\ lpc = "checking"
    /\ ~result.accessible
    /\ Len(attempts) < max_retries + 1
    /\ \E met \in Outcomes :
         /\ attempts' = Append(attempts, met)
         /\ result' = [accessible |-> Accessible(met),
                       status_code |-> StatusAfter(met, result.status_code),
                       error |-> IF Failed(met) THEN "Connection failed"
                                 ELSE IF Accessible(met) THEN result.error
                                 ELSE "HTTP " \o ToString(StatusAfter(met, 0))]
    /\ UNCHANGED <<link_doc, lpc, link_log, broken_links, accessible_count,
                   total_checked, link_rc>>
    /\ UNCHANGED notlinks

\* lines 63 and 84, then 129-143: check_url returns and the record is counted
FinishCheck ==
    /\ lpc = "checking"
    /\ result.accessible \/ Len(attempts) = max_retries + 1
    /\ LET resource == link_doc.resources[Len(link_log) + 1] IN
         IF result.accessible
         THEN /\ accessible_count' = accessible_count + 1
              /\ UNCHANGED broken_links
         ELSE /\ broken_links' =
                     Append(broken_links,
                            [id |-> IF "id" \in DOMAIN resource THEN Fmt(resource["id"])
                                    ELSE "resource_" \o ToString(Len(link_log) + 1),
                             url |-> resource["url"].v,
                             status |-> result.status_code,
                             error |-> result.error])
              /\ UNCHANGED accessible_count
    /\ link_log' = Append(link_log, attempts)
    /\ attempts' = <<>>
    /\ lpc' = "loop"
    /\ UNCHANGED <<link_doc, result, total_checked, link_rc>>
    /\ UNCHANGED notlinks

\* lines 148-169 and 177-178: the report and the exit status
LinksReport ==
    /\ lpc = "loop"
    /\ Len(link_log) = Len(link_doc.resources)
    /\ link_rc' = IF broken_links # <<>> THEN 1 ELSE 0
    /\ lpc' = "done"
    /\ UNCHANGED <<link_doc, link_log, attempts, result, broken_links,
                   accessible_count, total_checked>>
    /\ UNCHANGED notlinks

NextLinks == LoadLinks \/ StartCheck \/ Attempt \/ FinishCheck \/ LinksReport

\* longest store the link check is given
MaxLinkRecords == 2

\* what the link check reads of a resource: one with a url, one with no url
\* key, one with an empty url
LinkPool ==
    {[id |-> S("a"), url |-> Chars(U_base)], [id |-> S("b")],
     [id |-> S("c"), url |-> Chars(<<>>)]}

InitLinks ==
    /\ link_doc \in {[shape |-> "ok", resources |-> rs] :
                        rs \in SeqsUpTo(LinkPool, MaxLinkRecords)}
                    \cup {[shape |-> sh, resources |-> <<>>] :
                            sh \in {"missing", "unparseable", "nokey"}}
    /\ lpc = "load"
    /\ link_log = <<>>
    /\ attempts = <<>>
    /\ result = [accessible |-> FALSE, status_code |-> 0, error |-> "None"]
    /\ broken_links = <<>>
    /\ accessible_count = 0
    /\ total_checked = 0
    /\ link_rc = -1
    /\ ValidatorOff
    /\ DifferencerOff
    /\ GeneratorOff
    /\ StarsOff

SpecLinks == InitLinks /\ [][NextLinks]_vars

\* the record has a url to check
HasLink(r) == "url" \in DOMAIN r /\ r["url"].v # <<>>

\* the attempt ended with a status of 400 or more, or with a failed request
EndedBadly(met) ==
    \/ met.head = 0
    \/ met.head >= 400 /\ met.head # 405
    \/ met.head = 405 /\ (met.get = 0 \/ met.get >= 400)

\* the urls in the broken list
BrokenUrls == [k \in 1..Len(broken_links) |-> broken_links[k].url]

\* the urls of the records gone through whose attempts all ended badly, in order
RECURSIVE UrlsOfBadRecords(_)
UrlsOfBadRecords(n) ==
    IF n = 0 THEN <<>>
    ELSE UrlsOfBadRecords(n - 1)
         \o (IF /\ HasLink(link_doc.resources[n])
                /\ \A a \in 1..Len(link_log[n]) : EndedBadly(link_log[n][a])
             THEN <<link_doc.resources[n]["url"].v>> ELSE <<>>)

\* the accounting of C19, for the records gone through
LinkAccounting ==
    /\ \A n \in 1..Len(link_log) :
           /\ Len(link_log[n]) <= max_retries + 1
           /\ HasLink(link_doc.resources[n]) =>
                  /\ link_log[n] # <<>>
                  /\ \A a \in 1..(Len(link_log[n]) - 1) : EndedBadly(link_log[n][a])
                  /\ EndedBadly(link_log[n][Len(link_log[n])])
                         => Len(link_log[n]) = max_retries + 1
           /\ ~HasLink(link_doc.resources[n]) => link_log[n] = <<>>
    /\ BrokenUrls = UrlsOfBadRecords(Len(link_log))
    /\ lpc # "checking" =>
           /\ total_checked =
                  Cardinality({n \in 1..Len(link_log) : HasLink(link_doc.resources[n])})
           /\ accessible_count + Len(broken_links) = total_checked

----------------------------------------------------------------------------
(* validate.py: what a failing rule leaves of the later rules              *)

\* the messages of the presence, type and value rules
EarlyKinds ==
    {"Missing required fields", "must be a string", "must be a list",
     "must be an integer", "Maximum 2 domains allowed", "Invalid domains",
     "Invalid type", "Invalid maturity", "Invalid effort", "Invalid date format"}

\* the messages of the value rule
ValueKinds == EarlyKinds \ {"Missing required fields", "must be a string",
                            "must be a list", "must be an integer"}

\* the warnings of the content-quality rule
QualityKinds ==
    {"Summary too short", "Summary too long", "why_useful too short",
     "Title too long", "Avoid generic phrase"}

\* the warnings of the url-format rule
UrlWarningKinds == {"Consider HTTPS URL", "GitHub URL should be in format"}

\* the warnings the step appended
WarningsGained == SubSeq(warnings', Len(warnings) + 1, Len(warnings'))

\* the step appended one error
OneErrorGained == Len(errors') = Len(errors) + 1 /\ SubSeq(errors', 1, Len(errors)) = errors

\* C20 as worded: a record with its fields present and well typed that gets a
\* value-constraint or uniqueness error is still registered by the uniqueness
\* rule and still gets its content-quality warnings. Violated: the first rule
\* that raises ends validate_resource for the record.
C20_ValueFailureKeepsLaterRules ==
    [][(/\ pc = "validate"
        /\ AllPresent(NextRecord) /\ TypesCorrect(NextRecord)
        /\ OneErrorGained
        /\ errors'[Len(errors')].kind \in ValueKinds \cup {"Duplicate ID", "Duplicate URL"})
          => /\ Fmt(ResourceId(NextRecord, idx)) \in seen_ids'
             /\ SelectSeq(WarningsGained, LAMBDA w : w.kind \in QualityKinds)
                    = _validate_content_quality(NextRecord,
                                                Fmt(ResourceId(NextRecord, idx))).warns]_vars

\* C20 as amended: validate_resource reports at most one error for a record,
\* and the rule that reports it stops every later rule for that record,
\* whatever the failure: after a presence, type or value error or a duplicate
\* id the record is not registered (seen ids and seen urls are unchanged),
\* after a duplicate url its url is not registered, and after any error but
\* that of the url format, the last rule, no content-quality and no
\* url-format warning is added.
C20_FirstFailureStopsLaterRules ==
    [][pc = "validate" =>
          /\ errors' = errors \/ OneErrorGained
          /\ OneErrorGained =>
               LET kind == errors'[Len(errors')].kind IN
               /\ kind \in EarlyKinds \cup {"Duplicate ID", "Duplicate URL", "Invalid URL format"}
               /\ kind \in EarlyKinds \cup {"Duplicate ID"}
                      => seen_ids' = seen_ids /\ seen_urls' = seen_urls
               /\ kind = "Duplicate URL" => seen_urls' = seen_urls
               /\ kind # "Invalid URL format"
                      => SelectSeq(WarningsGained,
                                   LAMBDA w : w.kind \in QualityKinds \cup UrlWarningKinds)
                             = <<>>]_vars

\* a record with a value error, then a well-formed record with the same id
\* and a short summary: the second is no duplicate, the first was never
\* registered, and only the second got its content-quality warnings
C20_Witness ==
    /\ pc = "xref" /\ idx = 2
    /\ SameId(doc.resources[1], doc.resources[2])
    /\ Len(errors) = 1 /\ errors[1].kind \in ValueKinds
    /\ seen_ids = {doc.resources[2]["id"].v}
    /\ \E k \in 1..Len(warnings) : warnings[k].kind \in QualityKinds

----------------------------------------------------------------------------
(* analyze_changes.py: a change of the domain sequence                     *)

\* the two records differ in their `domain` sequence and in nothing else
OnlyDomainDiffers(c, p) ==
    /\ "domain" \in DOMAIN c /\ "domain" \in DOMAIN p
    /\ ~PyEq(c["domain"], p["domain"])
    /\ Without(c, {"domain"}) = Without(p, {"domain"})

\* C21: a record whose id is in both snapshots and whose two versions differ in
\* the `domain` sequence only is in modified_resources. Violated: the
\* comparison reads the key `domains`, which neither version has, and finds
\* the two equal.
C21_DomainChangeReported ==
    dpc = "done" =>
        \A j \in 1..Len(current_resources) : \A k \in 1..Len(previous_resources) :
            (/\ HasStrId(current_resources[j]) /\ current_resources[j]["id"].v # ""
             /\ SameId(current_resources[j], previous_resources[k])
             /\ Carrying(current_resources, current_resources[j]["id"].v) = {j}
             /\ Carrying(previous_resources, current_resources[j]["id"].v) = {k}
             /\ OnlyDomainDiffers(current_resources[j], previous_resources[k]))
                => EntriesOf(current_resources[j]) # {}

----------------------------------------------------------------------------
(* generate.py: the recency key                                            *)

\* the first non-empty of last_updated, published, added is a string that one
\* of the formats of parse_date reads
HasParseableDate(r) ==
    /\ Truthy(DateChosen(r))
    /\ DateChosen(r).t = "str"
    /\ \/ DateIsValid(DateChosen(r).v)
       \/ StrptimeYearOk(DateChosen(r).v)

\* C22: in every returned group, of two records of equal maturity rank whose
\* first non-empty date parses, the one with the newer date does not come
\* later, and a record whose date is missing or does not parse never comes
\* before a record of equal maturity rank whose date parses. Violated: the
\* missing date counts as 1900-01-01, and a record dated before 1900 is put
\* after the record without a date.
C22_MissingDateSortsOldest ==
    \A g \in ReturnedGroups :
        \A i \in 1..Len(g), j \in 1..Len(g) :
            (i < j /\ MaturityRankOf(g[i]) = MaturityRankOf(g[j])) =>
                /\ HasParseableDate(g[i]) /\ HasParseableDate(g[j])
                       => ~Later(DateOf(g[j]), DateOf(g[i]))
                /\ HasParseableDate(g[j]) => HasParseableDate(g[i])

----------------------------------------------------------------------------
(* The validator's domains and the classifier's tables                     *)

\* the stored record the generator's record is read from: the fields the
\* generator does not read, and the title, are those of a valid record
AsStored(r) ==
    [f \in DOMAIN r \cup {"id", "url", "type", "effort", "summary", "why_useful", "title"} |->
        IF f \in {"id", "url", "type", "effort", "summary", "why_useful", "title"}
        THEN BaseA[f] ELSE r[f]]

\* validate_resource returns for the stored record and reports no error
ValidatorAccepts(r) ==
    LET o == validate_resource(AsStored(r), 0, {}, {}) IN
    o.exc = "none" /\ o.errs = <<>>

\* C23: a record the validator accepts stands, in the section of each of its
\* domains, under a label of that domain's own table or its own fallback,
\* never under the generic label of the branch for domains without a table.
\* Violated: of the validator's eight domains only Security and
\* Data-Engineering have a branch in the classifier.
C23_ValidDomainsHaveTables ==
    \A k \in 1..Len(sections) :
        \A j \in 1..Len(sections[k].val) :
            \A i \in 1..Len(sections[k].val[j].val) :
                ValidatorAccepts(sections[k].val[j].val[i])
                    => /\ sections[k].key \in DOMAIN SubcategoryRules
                       /\ sections[k].val[j].key # GenericLabel

----------------------------------------------------------------------------
(* validate.py: the domain and good_for sequences of an accepted record    *)

\* the record's domain is a sequence of 1 or 2 entries of the enumeration
DomainWellFormed(r) ==
    /\ "domain" \in DOMAIN r
    /\ r["domain"].t = "list"
    /\ Len(r["domain"].v) \in 1..MaxDomains
    /\ SeqToSet(r["domain"].v) \subseteq VALID_DOMAINS

\* C24: a record validate_resource accepts with no error has a domain sequence
\* of 1 or 2 entries of the enumeration, and a record whose domain sequence
\* is empty, longer than 2 or holds another value gets an error. Violated:
\* the empty sequence passes the length check and has no invalid entry.
C24_AcceptedDomainsOneOrTwo ==
    [][pc = "validate" =>
          /\ (errors' = errors /\ raised' = "none") => DomainWellFormed(NextRecord)
          /\ ~DomainWellFormed(NextRecord) => OneErrorGained]_vars

\* C25: a record validate_resource accepts with no error has every value of
\* its good_for sequence in the good_for enumeration. Violated: no rule
\* compares good_for with VALID_GOOD_FOR.
C25_AcceptedGoodForEnumerated ==
    [][(pc = "validate" /\ errors' = errors /\ raised' = "none")
          => /\ "good_for" \in DOMAIN NextRecord
             /\ NextRecord["good_for"].t = "list"
             /\ SeqToSet(NextRecord["good_for"].v) \subseteq VALID_GOOD_FOR]_vars

----------------------------------------------------------------------------
(* validate.py: the normalized urls the uniqueness rule keeps               *)

\* C26: every normalized url the uniqueness rule has registered is left as
\* it is by a second normalization, does not end with a slash and has no
\* "www." in it. Violated: removing "www." from the end of a url lays bare
\* the slash before it, which was stripped before the removal only.
C26_NormalizeIdempotentCanonical ==
    \A u \in seen_urls :
        /\ _normalize_url(u) = u
        /\ u = <<>> \/ u[Len(u)] # "/"
        /\ ~Contains(u, Www)

----------------------------------------------------------------------------
(* generate.py: what grouping by domain keeps of an accepted collection    *)

\* every record of the collection is one the validator accepts, and no two
\* are the same record
AcceptedCollection ==
    /\ \A k \in 1..Len(gen_resources) : ValidatorAccepts(gen_resources[k])
    /\ \A k \in 1..Len(gen_resources), h \in 1..Len(gen_resources) :
           k # h => gen_resources[k] # gen_resources[h]

\* C27: once an accepted collection is grouped, each of its records is in at
\* least one domain group and no domain group holds a record twice.
\* Violated: the validator accepts a domain sequence that names one domain
\* twice, and one that is empty.
C27_GroupingKeepsEachRecordOnce ==
    (gpc \in {"sections", "done"} /\ AcceptedCollection) =>
        /\ \A k \in 1..Len(gen_resources) :
               \E g \in 1..Len(grouped) : \E i \in 1..Len(grouped[g].val) :
                   grouped[g].val[i] = gen_resources[k]
        /\ \A g \in 1..Len(grouped) :
               \A i \in 1..Len(grouped[g].val), j \in 1..Len(grouped[g].val) :
                   i < j => grouped[g].val[i] # grouped[g].val[j]

====
